---- MODULE Spec2Model ----
(***************************************************************************)
(* The block-processing engine of sawavi: the driver Singer::process, the  *)
(* playback-position advance, the timeline-to-event translation            *)
(* Track::compute_midi and the per-track render tasks.                     *)
(*                                                                         *)
(* Lane and module indices are 0-based in the Rust code and 1-based here   *)
(* (a Vec is a TLA+ sequence).  Option<T> is a sequence of length 0 or 1:  *)
(* None is << >> and Some(x) is << x >>.                                   *)
(***************************************************************************)
EXTENDS Integers, Sequences, FiniteSets, TLC

VARIABLES
    song,       \* Song: play_p, play_position (singer.rs `self.song`)
    line_play,  \* Singer::line_play
    view_msgs,  \* ViewMsg values sent on song_sender during the last block
    track,      \* the timeline of the track: lanes, automation_params
    ctx,        \* the track's ProcessTrackContext
    gh,         \* history of the run, read only by the properties
    routing,    \* Track.modules of every track: the AudioInput bindings of each module
    drv,        \* where Singer::process stands: "idle" between blocks, "render" in the fan-out
    block,      \* number of the block being processed (0 before the first)
    task,       \* the render task of every track of the block
    lock,       \* the Mutex of every track's render context: TRUE when held
    plug,       \* the process data of every module: its output, its patched inputs
    result,     \* what the last Singer::process returned
    seen,       \* history of the cross-track reads, read only by the properties
    buffer,     \* ProcessTrackContext::buffer of every track: [channel][frame]
    output,     \* the interleaved output slice handed to Singer::process
    handles,    \* ProcessTrackContext::plugins of every track: the plugin handles
    mutex,      \* the Mutex around the Singer: who holds it
    listener    \* the command thread of Singer::start_listener: its position, its message

transVars == <<song, line_play, view_msgs, track, ctx, gh>>
mixVars == <<buffer, output, handles>>
listenVars == <<mutex, listener>>
renderVars == <<routing, drv, block, task, lock, plug, result, seen,
                buffer, output, handles, mutex, listener>>
vars == <<song, line_play, view_msgs, track, ctx, gh,
          routing, drv, block, task, lock, plug, result, seen,
          buffer, output, handles, mutex, listener>>

(***************************************************************************)
(* Program constants.                                                      *)
(***************************************************************************)
LineTicks == 256
ResetTick == 3584
Bpm == 128
SampleRate == 48000
Lpb == 4
SecPerMinute == 60
PointScale == 255
\* channels of a block (stereo)
NChannels == 2

(***************************************************************************)
(* Bounds of the model.                                                    *)
(***************************************************************************)
\* the per-item translation counters of the history saturate here
MaxCount == 2
\* blocks processed in a behaviour of the render tasks
MaxBlocks == 2
\* commands the editor sends in a behaviour of the command thread
MaxCommands == 2
\* frames of the audio buffers the routing and the mix are followed on
MaxFrames == 2

\* frame counts of the blocks the audio device asks for (output.len() / nchannels)
FrameCounts == {8, 2812, 8438}

None == << >>
Some(x) == << x >>

NoteItem(key, velocity, delay) ==
    [type |-> "Note", key |-> key, velocity |-> velocity, off |-> FALSE, delay |-> delay]
OffItem(delay) ==
    [type |-> "Note", key |-> 0, velocity |-> 0, off |-> TRUE, delay |-> delay]
PointItem(value, index, delay) ==
    [type |-> "Point", value |-> value, automation_params_index |-> index, delay |-> delay]

EmptyLane == [l \in {} |-> l]

\* The timelines the behaviours are drawn from.  A lane maps a line to its item.
Timelines ==
    { [lanes |-> << (0 :> NoteItem(60, 100, 0)) @@ (1 :> OffItem(0)) @@ (2 :> OffItem(64)),
                    EmptyLane >>,
       automation_params |-> << >>],
      [lanes |-> << (0 :> NoteItem(60, 100, 128)) @@ (1 :> NoteItem(62, 90, 0))
                        @@ (13 :> NoteItem(64, 80, 192)),
                    (0 :> PointItem(255, 1, 0)) @@ (13 :> OffItem(0)) >>,
       automation_params |-> << <<1, 7>> >>],
      [lanes |-> << (13 :> NoteItem(60, 100, 0)) @@ (14 :> NoteItem(65, 100, 0)),
                    (1 :> NoteItem(48, 100, 93)) @@ (14 :> PointItem(0, 1, 16)) >>,
       automation_params |-> << <<1, 7>> >>] }

\* The loop window the driver hands to the context.
LoopRanges == { [start |-> 0, end |-> ResetTick] }

\* the items of a timeline, each named by its lane and line
Items(t) ==
    UNION { { <<lane, line>> : line \in DOMAIN t.lanes[lane] } : lane \in 1..Len(t.lanes) }

\* absolute tick time of the item stored at (lane, line)
ItemTime(t, it) == it[2] * LineTicks + t.lanes[it[1]][it[2]].delay

(***************************************************************************)
(* Track::compute_midi                                                     *)
(***************************************************************************)
\* a note-start that loses its offset in the block
NoteOnAtBlockStart(key, velocity, delay) ==
    [type |-> "NoteOn", key |-> key, velocity |-> velocity, delay |-> 0]

\* Event::NoteOn(key, velocity, delay)
NoteOn(key, velocity, delay) ==
    [type |-> "NoteOn", key |-> key, velocity |-> velocity, delay |-> delay]
NoteOff(key, delay) == [type |-> "NoteOff", key |-> key, delay |-> delay]
ParamValue(module_index, param_id, value, delay) ==
    [type |-> "ParamValue", module_index |-> module_index, param_id |-> param_id,
     value |-> value, delay |-> delay]

\* a range that takes its end tick too
ContainsInclusive(range, time) == range.start <= time /\ time <= range.end

\* Range::contains
Contains(range, time) == range.start <= time /\ time < range.end

\* the two halves of a wrap in the other order
RangesHeadFirst(c) ==
    IF c.play_position.start < c.play_position.end
    THEN << c.play_position >>
    ELSE << [start |-> c.loop_range.start, end |-> c.play_position.end],
            [start |-> c.play_position.start, end |-> c.loop_range.end] >>

\* the ranges of a block: one when start < end, else the two halves of a wrap
Ranges(c) ==
    IF c.play_position.start < c.play_position.end
    THEN << c.play_position >>
    ELSE << [start |-> c.play_position.start, end |-> c.loop_range.end],
            [start |-> c.loop_range.start, end |-> c.play_position.end] >>

\* the pairs of one range with the lanes outside and the lines inside
VisitsLaneFirst(t, range) ==
    LET line_start == range.start \div LineTicks
        line_end == range.end \div LineTicks
        nl == IF line_end >= line_start THEN line_end - line_start + 1 ELSE 0
        n == nl * Len(t.lanes)
    IN [i \in 1..n |-> [line |-> line_start + ((i - 1) % nl),
                        lane |-> ((i - 1) \div nl) + 1]]

\* the (line, lane) pairs of one range in iteration order: line_start..=line_end
\* outside, the lanes inside
Visits(t, range) ==
    LET line_start == range.start \div LineTicks
        line_end == range.end \div LineTicks
        nl == Len(t.lanes)
        n == IF line_end >= line_start THEN (line_end - line_start + 1) * nl ELSE 0
    IN [i \in 1..n |-> [line |-> line_start + ((i - 1) \div nl),
                        lane |-> ((i - 1) % nl) + 1]]

\* on_keys.get(lane_index): the stored Option when the index is in the table
HeldKey(on_keys, lane) == IF lane <= Len(on_keys) THEN on_keys[lane] ELSE None

\* on_keys.resize_with(lane_index + 1, || None) followed by on_keys[lane_index] = Some(key)
SetKey(on_keys, lane, key) ==
    LET grown == IF Len(on_keys) < lane
                 THEN on_keys \o [i \in 1..(lane - Len(on_keys)) |-> None]
                 ELSE on_keys
    IN [grown EXCEPT ![lane] = Some(key)]

\* the held-key table after the release of the key of a lane: the `take()` acts on
\* the temporary returned by `get`, so the table keeps the key
AfterRelease(on_keys, lane) == on_keys

\* the body of the match on a Note item whose time is in the range
TranslateNote(acc, note, lane, delay) ==
    LET held == HeldKey(acc.on_keys, lane)
        ev1 == IF held # None
               THEN Append(acc.event_list_input, NoteOff(held[1], delay))
               ELSE acc.event_list_input
        src == acc.hitlog[Len(acc.hitlog)]
        lg1 == IF held # None THEN Append(acc.ev_src, src) ELSE acc.ev_src
        keys1 == IF held # None THEN AfterRelease(acc.on_keys, lane) ELSE acc.on_keys
    IN IF ~note.off
       THEN [acc EXCEPT !.event_list_input =
                            Append(ev1, NoteOn(note.key, note.velocity, delay)),
                        !.ev_src = Append(lg1, src),
                        !.on_keys = SetKey(keys1, lane, note.key)]
       ELSE [acc EXCEPT !.event_list_input = ev1, !.ev_src = lg1, !.on_keys = keys1]

\* a value scaled by 256 instead of 255
NormalizedTo256(value) == << value, PointScale + 1 >>

\* point.value as f64 / 255.0: the quotient, kept as numerator and denominator
Normalized(value) == << value, PointScale >>

\* the body of the match on a Point item whose time is in the range; the index into
\* automation_params panics when it is out of range
TranslatePoint(acc, t, point, lane, delay) ==
    IF point.automation_params_index \notin 1..Len(t.automation_params)
    THEN [acc EXCEPT !.panicked = TRUE]
    ELSE LET binding == t.automation_params[point.automation_params_index]
         IN [acc EXCEPT !.event_list_input =
                            Append(@, ParamValue(binding[1], binding[2],
                                                 Normalized(point.value), delay)),
                        !.ev_src = Append(@, acc.hitlog[Len(acc.hitlog)])]

\* one iteration of the innermost loop: the item of `lane` at `line`, if any
TranslateItem(acc, t, range, rng, line, lane) ==
    IF acc.panicked \/ line \notin DOMAIN t.lanes[lane]
    THEN acc
    ELSE LET item == t.lanes[lane][line]
             time == line * LineTicks + item.delay
         IN IF ~Contains(range, time)
            THEN acc
            ELSE LET delay == time - range.start
                     hit == [acc EXCEPT !.hitlog =
                                Append(@, [rng |-> rng, lane |-> lane, line |-> line])]
                 IN IF item.type = "Note"
                    THEN TranslateNote(hit, item, lane, delay)
                    ELSE TranslatePoint(hit, t, item, lane, delay)

RECURSIVE TranslateVisits(_, _, _, _, _, _)
TranslateVisits(acc, t, range, rng, visits, i) ==
    IF i > Len(visits)
    THEN acc
    ELSE TranslateVisits(TranslateItem(acc, t, range, rng, visits[i].line, visits[i].lane),
                         t, range, rng, visits, i + 1)

RECURSIVE TranslateRanges(_, _, _, _)
TranslateRanges(acc, t, ranges, rng) ==
    IF rng > Len(ranges)
    THEN acc
    ELSE TranslateRanges(
             TranslateVisits(acc, t, ranges[rng], rng, Visits(t, ranges[rng]), 1),
             t, ranges, rng + 1)

\* compute_midi: the context's event queue and held-key table after the call, or at
\* the panic that ended it (panicked), with the ranges it went through (ranges), the
\* log of the translated items (hitlog) and of the item of each event (ev_src)
compute_midi(t, c) ==
    LET acc0 == [on_keys |-> c.on_keys, event_list_input |-> c.event_list_input,
                 hitlog |-> << >>, ev_src |-> << >>, ranges |-> << >>, panicked |-> FALSE]
    IN IF ~c.play_p
       THEN acc0
       ELSE TranslateRanges([acc0 EXCEPT !.ranges = Ranges(c)], t, Ranges(c), 1)

(***************************************************************************)
(* Singer::compute_play_position                                           *)
(***************************************************************************)
\* the quotient cut off instead of rounded
TicksPerBlockTruncated(frames_count) ==
    (frames_count * Bpm * Lpb * LineTicks) \div (SecPerMinute * SampleRate)

\* (sec_per_frame / sec_per_delay).round(): the quotient
\* (frames / sample_rate) / (60 / (bpm * lpb * 256)) rounded half away from zero
TicksPerBlock(frames_count) ==
    LET num == frames_count * Bpm * Lpb * LineTicks
        den == SecPerMinute * SampleRate
    IN (num \div den) + (IF 2 * (num % den) >= den THEN 1 ELSE 0)

compute_play_position(s, lp, frames_count) ==
    LET start == s.play_position.end
        line == start \div LineTicks
        sent == IF lp # line THEN << [type |-> "State", line_play |-> lp] >> ELSE << >>
        end == start + TicksPerBlock(frames_count)
    IN [line_play |-> line,
        sent |-> sent,
        play_position |->
            IF ~s.play_p THEN [start |-> start, end |-> s.play_position.end]
            ELSE IF start > ResetTick THEN [start |-> 0, end |-> 0]
            ELSE [start |-> start, end |-> end]]

(***************************************************************************)
(* The render context of a track: its default, its set-up for a block and  *)
(* Track::process of a track without modules (Track::new).                 *)
(***************************************************************************)
\* ProcessTrackContext::default, with the loop window of the song
ContextDefault(loop_range) ==
    [nchannels |-> 0, nframes |-> 0, play_p |-> FALSE,
     play_position |-> [start |-> 0, end |-> 0],
     loop_range |-> loop_range, on_keys |-> << >>, event_list_input |-> << >>]

\* a context that keeps the events of the block before
prepareKeepsQueue(c) == c

\* a preparation that also forgets the held keys
prepareClearsKeys(c) == [c EXCEPT !.event_list_input = << >>, !.on_keys = << >>]

\* ProcessTrackContext::prepare
prepare(c) == [c EXCEPT !.event_list_input = << >>]

\* the per-track set-up loop of Singer::process
SetUp(c, s, frames_count) ==
    prepare([c EXCEPT !.nchannels = NChannels,
                      !.nframes = frames_count,
                      !.play_p = s.play_p,
                      !.play_position = s.play_position])

\* Track::process of a track without modules: the translation alone
TrackProcess(t, c) ==
    LET r == compute_midi(t, c)
    IN [c EXCEPT !.on_keys = r.on_keys, !.event_list_input = r.event_list_input]

(***************************************************************************)
(* History of the run.  Nothing below is read by the program's operations. *)
(***************************************************************************)
Saturate(n) == IF n > MaxCount THEN MaxCount ELSE n

\* how often the item `it` occurs in a log of translated items, in the ranges `rngs`
RECURSIVE CountHits(_, _, _, _)
CountHits(log, it, rngs, i) ==
    IF i > Len(log) THEN 0
    ELSE (IF log[i].lane = it[1] /\ log[i].line = it[2] /\ log[i].rng \in rngs THEN 1 ELSE 0)
         + CountHits(log, it, rngs, i + 1)

\* the keys sounding in the modules, lane by lane, after the events of a block: a
\* NoteOn starts a key, a NoteOff of the sounding key ends it
RECURSIVE Replay(_, _, _, _)
Replay(st, events, ev_src, i) ==
    IF i > Len(events) THEN st
    ELSE LET e == events[i]
             lane == ev_src[i].lane
             now == st.sounding[lane]
             next == IF e.type = "NoteOff"
                     THEN [st EXCEPT !.sounding[lane] = IF now = Some(e.key) THEN None ELSE now,
                                     !.doubleOff = @ \/ now # Some(e.key)]
                     ELSE IF e.type = "NoteOn"
                     THEN [st EXCEPT !.sounding[lane] = Some(e.key),
                                     !.overlap = @ \/ now # None]
                     ELSE st
         IN Replay(next, events, ev_src, i + 1)

ZeroHits(t) == [it \in Items(t) |-> 0]

\* the context of the second run of a replay: no key is held, and the rest is what
\* an earlier use left behind (a block of another length, its last event queue)
UsedContext ==
    [ContextDefault([start |-> 0, end |-> 0]) EXCEPT
         !.nchannels = NChannels, !.nframes = 1,
         !.event_list_input = << NoteOff(60, 0), NoteOn(62, 100, 0) >>]

\* the second run goes through the block the first run went through: the same
\* set-up from the same transport and loop window, the same timeline
TwinBlock(twin, t, before) ==
    TrackProcess(t, [SetUp(twin, before, before.nframes) EXCEPT
                         !.loop_range = before.loop_range])

HistoryInit(t, s) ==
    [ran |-> FALSE,
     panicked |-> FALSE,
     prev_end |-> s.play_position.end,
     keys_before |-> << >>,
     ranges |-> << >>,
     hitlog |-> << >>,
     ev_src |-> << >>,
     sounding |-> [l \in 1..Len(t.lanes) |-> None],
     doubleOff |-> FALSE,
     overlap |-> FALSE,
     runFrom |-> s.play_position.end,
     runHits |-> ZeroHits(t),
     passFrom |-> s.play_position.end,
     passHits |-> ZeroHits(t),
     closed |-> [valid |-> FALSE, from |-> 0, hits |-> ZeroHits(t)],
     twin |-> UsedContext,
     live |-> << >>]

\* the history after a block: `before` is the context the block started from (after
\* the driver's set-up), `r` the result of compute_midi
History(g, t, prev, before, r) ==
    LET wrap == Len(r.ranges) = 2
        rp == Replay([sounding |-> g.sounding, doubleOff |-> FALSE, overlap |-> FALSE],
                     r.event_list_input, r.ev_src, 1)
        add(h, rngs) ==
            [it \in Items(t) |-> Saturate(h[it] + CountHits(r.hitlog, it, rngs, 1))]
    IN [ran |-> TRUE,
        panicked |-> r.panicked,
        prev_end |-> prev.play_position.end,
        keys_before |-> before.on_keys,
        ranges |-> r.ranges,
        hitlog |-> r.hitlog,
        ev_src |-> r.ev_src,
        sounding |-> rp.sounding,
        doubleOff |-> rp.doubleOff,
        overlap |-> rp.overlap,
        runFrom |-> IF wrap THEN before.play_position.end ELSE g.runFrom,
        runHits |-> IF wrap THEN ZeroHits(t) ELSE add(g.runHits, {1}),
        passFrom |-> IF wrap THEN before.loop_range.start ELSE g.passFrom,
        passHits |-> IF wrap THEN add(ZeroHits(t), {2}) ELSE add(g.passHits, {1}),
        closed |-> IF wrap
                   THEN [valid |-> TRUE, from |-> g.passFrom, hits |-> add(g.passHits, {1})]
                   ELSE g.closed,
        twin |-> TwinBlock(g.twin, t, before),
        live |-> g.live]

(***************************************************************************)
(* The driver: one block of Singer::process over a track without modules   *)
(* (Track::new), and the transport commands.                               *)
(***************************************************************************)
Process(frames_count) ==
    LET cpp == compute_play_position(song, line_play, frames_count)
        song1 == [song EXCEPT !.play_position = cpp.play_position]
        before == SetUp(ctx, song1, frames_count)
    IN /\ song' = song1
       /\ line_play' = cpp.line_play
       /\ view_msgs' = cpp.sent
       /\ ctx' = TrackProcess(track, before)
       /\ gh' = History(gh, track, song, before, compute_midi(track, before))
       /\ UNCHANGED track
       /\ UNCHANGED renderVars

\* Singer::play
Play ==
    /\ ~song.play_p
    /\ song' = [song EXCEPT !.play_p = TRUE]
    /\ UNCHANGED <<line_play, view_msgs, track, ctx, gh>>
    /\ UNCHANGED renderVars

\* Singer::stop
Stop ==
    /\ song.play_p
    /\ song' = [song EXCEPT !.play_p = FALSE]
    /\ UNCHANGED <<line_play, view_msgs, track, ctx, gh>>
    /\ UNCHANGED renderVars

\* the command thread waiting in receiver.recv()
ListenerIdle == [pc |-> "recv", msg |-> None, received |-> 0]

\* the render task of a track before the fan-out of a block
TaskIdle ==
    [pc |-> "idle", module |-> 1, input |-> 1, phase |-> "ptr", holding |-> 0,
     result |-> "none"]

\* Song::new
SongNew == [play_p |-> FALSE, play_position |-> [start |-> 0, end |-> 0]]

Init ==
    /\ song = SongNew
    /\ line_play = 0
    /\ view_msgs = << >>
    /\ track \in Timelines
    /\ \E lr \in LoopRanges : ctx = ContextDefault(lr)
    /\ gh = HistoryInit(track, song)
    /\ routing = << << >> >>
    /\ drv = "idle"
    /\ block = 0
    /\ task = << TaskIdle >>
    /\ lock = << FALSE >>
    /\ plug = << << >> >>
    /\ result = "none"
    /\ seen = {}
    /\ buffer = << >>
    /\ output = << >>
    /\ handles = << << >> >>
    /\ mutex = "free"
    /\ listener = ListenerIdle

Next ==
    \/ \E frames_count \in FrameCounts : Process(frames_count)
    \/ Play
    \/ Stop

Spec == Init /\ [][Next]_vars

(***************************************************************************)
(* compute_midi on its own: the context is drawn from the windows, flags    *)
(* and held-key tables below and Track::process is applied to it once.      *)
(***************************************************************************)
\* window bounds on a grid of half lines, up to the loop end
WindowTicks == { k * (LineTicks \div 2) : k \in 0..(2 * (ResetTick \div LineTicks)) }

\* loop windows: the whole pattern, and one that starts and ends inside it
MidiLoopRanges ==
    LoopRanges \cup { [start |-> 2 * LineTicks, end |-> ResetTick - LineTicks] }

\* a timeline whose Point item names a binding that the track does not have
FaultyTimelines ==
    { [lanes |-> << (0 :> NoteItem(60, 100, 0)) @@ (1 :> PointItem(128, 2, 16)) >>,
       automation_params |-> << <<1, 7>> >>] }

\* held-key tables a block can start from
HeldTables == { << >>, << Some(72) >>, << None, Some(72) >> }

InitMidi ==
    /\ \E p \in BOOLEAN, start \in WindowTicks, end \in WindowTicks :
           song = [play_p |-> p, play_position |-> [start |-> start, end |-> end]]
    /\ line_play = song.play_position.start \div LineTicks
    /\ view_msgs = << >>
    /\ track \in Timelines \cup FaultyTimelines
    /\ \E lr \in MidiLoopRanges, keys \in HeldTables :
           ctx = [ContextDefault(lr) EXCEPT !.play_p = song.play_p,
                                           !.play_position = song.play_position,
                                           !.on_keys = keys]
    /\ gh = HistoryInit(track, song)
    /\ routing = << << >> >>
    /\ drv = "idle"
    /\ block = 0
    /\ task = << TaskIdle >>
    /\ lock = << FALSE >>
    /\ plug = << << >> >>
    /\ result = "none"
    /\ seen = {}
    /\ buffer = << >>
    /\ output = << >>
    /\ handles = << << >> >>
    /\ mutex = "free"
    /\ listener = ListenerIdle

\* Track::process of the drawn context
Translate ==
    /\ ~gh.ran
    /\ ctx' = TrackProcess(track, ctx)
    /\ gh' = History(gh, track, song, ctx, compute_midi(track, ctx))
    /\ UNCHANGED <<song, line_play, view_msgs, track>>
    /\ UNCHANGED renderVars

SpecMidi == InitMidi /\ [][Translate]_vars

(***************************************************************************)
(* The render tasks of a block: Singer::process fans Track::process out,   *)
(* one task per track, and every task goes through its modules in order    *)
(* (process_module: prepare_module_event, prepare_module_audio, process).  *)
(* The transport is stopped here, so the translation of a block changes    *)
(* nothing and the event queues stay empty.                                *)
(***************************************************************************)
AudioInput(src_track, src_module) ==
    [src_module_index |-> <<src_track, src_module>>, src_port_index |-> 1,
     dst_port_index |-> 1]

\* The module lists the behaviours are drawn from: routing[t][m] holds the
\* audio_inputs of module m of track t.
Routings ==
    { \* the second module of track 2 takes the first module of track 1 and the first
      \* module of its own track
      << << << >> >>,
         << << >>, << AudioInput(1, 1), AudioInput(2, 1) >> >> >>,
      \* two tracks, each taking an input from the other
      << << << AudioInput(2, 1) >> >>,
         << << AudioInput(1, 1) >> >> >>,
      \* the module of track 2 names a source track that is not there, the second
      \* module of track 1 a module that is not there
      << << << >>, << AudioInput(1, 3) >> >>,
         << << AudioInput(3, 1) >> >> >> }

Tracks == 1..Len(routing)

\* Track::new
TrackNew == [lanes |-> << EmptyLane >>, automation_params |-> << >>]

\* a block of samples, named by the block that produced it; torn when it was read
\* while it was being written
Samples(blk, torn) == [blk |-> blk, torn |-> torn]

\* the process data of a module with n audio inputs, before the first block
PlugInit(n) ==
    [out |-> Samples(0, FALSE), inp |-> [i \in 1..n |-> Samples(0, FALSE)],
     writing |-> FALSE, called |-> 0, events |-> << >>]

\* what `&*src_ptr` yields: the pointer is read outside the lock, so a source that
\* is inside its native call at that moment gives the old block, the new one or a
\* mixture of them
ReadOutcomes(src) ==
    IF src.writing
    THEN {src.out, Samples(block, FALSE), Samples(block, TRUE)}
    ELSE {src.out}

\* frame counts of the blocks whose audio buffers are followed sample by sample
RenderFrameCounts == 1..MaxFrames

\* AudioBuffer::ensure_buffer(nchannels, nframes): the buffer takes the size of the
\* block, new samples are silent
EnsureBuffer(b, nchannels, nframes) ==
    [ch \in 1..nchannels |->
        [f \in 1..nframes |-> IF ch <= Len(b) /\ f <= Len(b[ch]) THEN b[ch][f] ELSE 0]]

\* how loud a module plays into the buffer of its track
Levels == {1, 2}

\* what the native call of a module of track t leaves in the buffer of the track's
\* context in block blk: a sample of its own for every track, block, channel and frame
TrackOutput(t, blk, level, nchannels, nframes) ==
    [ch \in 1..nchannels |->
        [f \in 1..nframes |-> level * (100 * t + 10 * blk + MaxFrames * (ch - 1) + f)]]

\* .iter().map(|x| x.buffer.buffer[channel][frame]).sum()
RECURSIVE MixAt(_, _, _, _)
MixAt(buffers, channel, frame, t) ==
    IF t > Len(buffers) THEN 0
    ELSE buffers[t][channel + 1][frame + 1] + MixAt(buffers, channel, frame, t + 1)

\* the sums laid out channel after channel
MixPlanar(buffers, nchannels, nframes) ==
    [k \in 1..(nchannels * nframes) |->
        MixAt(buffers, (k - 1) \div nframes, (k - 1) % nframes, 1)]

\* the mix: output[nchannels * frame + channel] is the sum of the tracks' samples at
\* (channel, frame)
Mix(buffers, nchannels, nframes) ==
    [k \in 1..(nchannels * nframes) |->
        MixAt(buffers, (k - 1) % nchannels, (k - 1) \div nchannels, 1)]

\* the value of try_for_each over the track tasks
FanOutResult(tasks) ==
    IF \E t \in DOMAIN tasks : tasks[t].result = "Err" THEN "Err" ELSE "Ok"

\* `let _ = ...try_for_each(...)` followed by Ok(()) at the end of Singer::process
ProcessValue(fan_out) == "Ok"

\* PluginPtr(x.as_mut().get_mut() ...): the handle of plugin m of track t
PluginPtr(t, m) == [track |-> t, index |-> m]

\* plugins.iter_mut().map(|x| PluginPtr(..)).collect(): the handles of the plugins of
\* track t, in the order of the list
Handles(plugins, t) == [m \in 1..Len(plugins) |-> PluginPtr(t, m)]

\* Singer::process up to the fan-out: the position, the set-up of the contexts
ProcessBegin ==
    /\ drv = "idle"
    /\ block < MaxBlocks
    /\ \E frames_count \in RenderFrameCounts :
           LET cpp == compute_play_position(song, line_play, frames_count)
               song1 == [song EXCEPT !.play_position = cpp.play_position]
           IN /\ song' = song1
              /\ line_play' = cpp.line_play
              /\ view_msgs' = cpp.sent
              /\ ctx' = SetUp(ctx, song1, frames_count)
              /\ buffer' = [t \in Tracks |-> EnsureBuffer(buffer[t], NChannels, frames_count)]
              /\ output' = [k \in 1..(NChannels * frames_count) |-> 0]
              /\ handles' = [t \in Tracks |-> Handles(plug[t], t)]
    /\ block' = block + 1
    /\ drv' = "render"
    /\ task' = [t \in Tracks |-> [TaskIdle EXCEPT !.pc = "ready"]]
    /\ result' = "none"
    /\ UNCHANGED <<track, gh, routing, lock, plug, seen>>
    /\ UNCHANGED listenVars

\* a pool thread takes the task of track t: it holds the track's own context for
\* the whole of Track::process
TaskStart(t) ==
    /\ drv = "render"
    /\ task[t].pc = "ready"
    /\ ~lock[t]
    /\ lock' = [lock EXCEPT ![t] = TRUE]
    /\ task' = [task EXCEPT ![t].pc = "run"]
    /\ UNCHANGED <<transVars, routing, drv, block, plug, result, seen>>
    /\ UNCHANGED <<mixVars, listenVars>>

\* a task has left Track::process through a panic
Panicked(tasks) == \E t \in DOMAIN tasks : tasks[t].pc = "panicked"

\* try_for_each stops handing out tasks once one of them has failed
TaskSkip(t) ==
    /\ drv = "render"
    /\ task[t].pc = "ready"
    /\ FanOutResult(task) = "Err" \/ Panicked(task)
    /\ task' = [task EXCEPT ![t].pc = "skipped"]
    /\ UNCHANGED <<transVars, routing, drv, block, lock, plug, result, seen>>
    /\ UNCHANGED <<mixVars, listenVars>>

\* the indices of an AudioInput name a plugin of the contexts: contexts[track] and
\* plugins[module] are in range
SourceInRange(from) ==
    /\ from[1] \in Tracks
    /\ from[2] \in 1..Len(routing[from[1]])

\* prepare_module_audio, the next input is of another track:
\* contexts[src].lock().unwrap() waits for the context of the source track
LockSource(t) ==
    LET m == task[t].module
    IN /\ task[t].pc = "run"
       /\ task[t].phase = "ptr"
       /\ m <= Len(routing[t])
       /\ task[t].input <= Len(routing[t][m])
       /\ LET from == routing[t][m][task[t].input].src_module_index
          IN /\ from[1] # t
             /\ SourceInRange(from)
             /\ ~lock[from[1]]
             /\ lock' = [lock EXCEPT ![from[1]] = TRUE]
             /\ task' = [task EXCEPT ![t].phase = "locked", ![t].holding = from[1]]
       /\ UNCHANGED <<transVars, routing, drv, block, plug, result, seen>>
       /\ UNCHANGED <<mixVars, listenVars>>

\* prepare_module_audio, the source pointer of the next input: from the task's own
\* context, or from the context of the source track, whose guard is dropped at the
\* end of the else block, before the pointer is used
ResolveInput(t) ==
    LET m == task[t].module
    IN /\ task[t].pc = "run"
       /\ m <= Len(routing[t])
       /\ task[t].input <= Len(routing[t][m])
       /\ LET from == routing[t][m][task[t].input].src_module_index
          IN \/ /\ task[t].phase = "ptr"
                /\ from[1] = t
                /\ SourceInRange(from)
                /\ task' = [task EXCEPT ![t].phase = "copy"]
                /\ UNCHANGED lock
             \/ /\ task[t].phase = "locked"
                /\ lock' = [lock EXCEPT ![from[1]] = FALSE]
                /\ task' = [task EXCEPT ![t].phase = "copy", ![t].holding = 0]
       /\ UNCHANGED <<transVars, routing, drv, block, plug, result, seen>>
       /\ UNCHANGED <<mixVars, listenVars>>

\* prepare_module_audio, the copy of the source's output into the input buffer
CopyInput(t) ==
    LET m == task[t].module
        i == task[t].input
        from == routing[t][m][i].src_module_index
    IN /\ task[t].pc = "run"
       /\ task[t].phase = "copy"
       /\ \E d \in ReadOutcomes(plug[from[1]][from[2]]) :
              /\ plug' = [plug EXCEPT ![t][m].inp[i] = d]
              /\ seen' = IF from[1] = t
                         THEN seen
                         ELSE seen \cup {[lag |-> block - d.blk, torn |-> d.torn,
                                          held |-> task[t].holding = from[1],
                                          writing |-> plug[from[1]][from[2]].writing]}
       /\ task' = [task EXCEPT ![t].phase = "ptr", ![t].input = i + 1]
       /\ UNCHANGED <<transVars, routing, drv, block, lock, result>>
       /\ UNCHANGED <<mixVars, listenVars>>

\* prepare_module_audio, the next input names a track or a module that is not
\* there: the index into contexts or into plugins panics and the task unwinds
InputPanic(t) ==
    LET m == task[t].module
    IN /\ task[t].pc = "run"
       /\ task[t].phase = "ptr"
       /\ m <= Len(routing[t])
       /\ task[t].input <= Len(routing[t][m])
       /\ ~SourceInRange(routing[t][m][task[t].input].src_module_index)
       /\ task' = [task EXCEPT ![t].pc = "panicked", ![t].result = "Panic"]
       /\ lock' = [lock EXCEPT ![t] = FALSE]
       /\ UNCHANGED <<transVars, routing, drv, block, plug, result, seen>>
       /\ UNCHANGED <<mixVars, listenVars>>

\* process_module: all inputs are patched, the native process call starts
ProcessCall(t) ==
    LET m == task[t].module
    IN /\ task[t].pc = "run"
       /\ task[t].phase = "ptr"
       /\ m <= Len(routing[t])
       /\ task[t].input > Len(routing[t][m])
       /\ plug' = [plug EXCEPT ![t][m].writing = TRUE, ![t][m].called = block]
       /\ task' = [task EXCEPT ![t].phase = "native"]
       /\ UNCHANGED <<transVars, routing, drv, block, lock, result, seen>>
       /\ UNCHANGED <<mixVars, listenVars>>

\* the native process call returns: Ok goes on with the next module, an error
\* leaves Track::process through the `?` and lets go of the context
ProcessReturn(t, ok) ==
    LET m == task[t].module
    IN /\ task[t].pc = "run"
       /\ task[t].phase = "native"
       /\ IF ok
          THEN /\ plug' = [plug EXCEPT ![t][m].writing = FALSE,
                                       ![t][m].out = Samples(block, FALSE)]
               /\ task' = [task EXCEPT ![t].phase = "ptr", ![t].module = m + 1,
                                       ![t].input = 1]
               /\ \E level \in Levels :
                      buffer' = [buffer EXCEPT ![t] =
                                    TrackOutput(t, block, level, ctx.nchannels, ctx.nframes)]
               /\ UNCHANGED lock
          ELSE /\ plug' = [plug EXCEPT ![t][m].writing = FALSE]
               /\ task' = [task EXCEPT ![t].pc = "done", ![t].result = "Err"]
               /\ lock' = [lock EXCEPT ![t] = FALSE]
               /\ UNCHANGED buffer
       /\ UNCHANGED <<transVars, routing, drv, block, result, seen>>
       /\ UNCHANGED <<output, handles, listenVars>>

\* Track::process returns Ok(()) after the last module
TaskFinish(t) ==
    /\ task[t].pc = "run"
    /\ task[t].phase = "ptr"
    /\ task[t].module > Len(routing[t])
    /\ task' = [task EXCEPT ![t].pc = "done", ![t].result = "Ok"]
    /\ lock' = [lock EXCEPT ![t] = FALSE]
    /\ UNCHANGED <<transVars, routing, drv, block, plug, result, seen>>
    /\ UNCHANGED <<mixVars, listenVars>>

\* Singer::process after the fan-out: the mix and the return
ProcessEnd ==
    /\ drv = "render"
    /\ \A t \in Tracks : task[t].pc \in {"done", "skipped"}
    /\ output' = Mix(buffer, ctx.nchannels, ctx.nframes)
    /\ drv' = "idle"
    /\ result' = ProcessValue(FanOutResult(task))
    /\ UNCHANGED <<transVars, routing, block, task, lock, plug, seen>>
    /\ UNCHANGED <<buffer, handles, listenVars>>

InitRender ==
    /\ song = SongNew
    /\ line_play = 0
    /\ view_msgs = << >>
    /\ track = TrackNew
    /\ \E lr \in LoopRanges : ctx = ContextDefault(lr)
    /\ gh = HistoryInit(track, song)
    /\ routing \in Routings
    /\ drv = "idle"
    /\ block = 0
    /\ task = [t \in Tracks |-> TaskIdle]
    /\ lock = [t \in Tracks |-> FALSE]
    /\ plug = [t \in Tracks |-> [m \in 1..Len(routing[t]) |-> PlugInit(Len(routing[t][m]))]]
    /\ result = "none"
    /\ seen = {}
    /\ buffer = [t \in Tracks |-> << >>]
    /\ output = << >>
    /\ handles = [t \in Tracks |-> << >>]
    /\ mutex = "free"
    /\ listener = ListenerIdle

\* the panic of a task comes out of the fan-out in the audio callback: no mix, no
\* return, no further block
ProcessPanic ==
    /\ drv = "render"
    /\ \A t \in Tracks : task[t].pc \in {"done", "skipped", "panicked"}
    /\ Panicked(task)
    /\ drv' = "crashed"
    /\ result' = "panic"
    /\ UNCHANGED <<transVars, routing, block, task, lock, plug, seen>>
    /\ UNCHANGED <<mixVars, listenVars>>

NextRender ==
    \/ ProcessBegin
    \/ ProcessEnd
    \/ ProcessPanic
    \/ \E t \in Tracks : LockSource(t)
    \/ \E t \in Tracks : InputPanic(t)
    \/ \E t \in Tracks : TaskStart(t)
    \/ \E t \in Tracks : TaskSkip(t)
    \/ \E t \in Tracks : ResolveInput(t)
    \/ \E t \in Tracks : CopyInput(t)
    \/ \E t \in Tracks : ProcessCall(t)
    \/ \E t \in Tracks : ProcessReturn(t, TRUE)
    \/ \E t \in Tracks : ProcessReturn(t, FALSE)
    \/ \E t \in Tracks : TaskFinish(t)

SpecRender == InitRender /\ [][NextRender]_vars

(***************************************************************************)
(* Track::prepare_module_event: the event queue of the block is delivered  *)
(* to the process data of one module.  The context is drawn from the       *)
(* queues and held-key tables below and the modules of the track are       *)
(* prepared in list order.                                                 *)
(***************************************************************************)
NoteAllOff == [type |-> "NoteAllOff"]

\* data.input_note_on(key, velocity, channel, delay)
input_note_on(key, velocity, channel, delay) ==
    [type |-> "note_on", key |-> key, velocity |-> velocity, channel |-> channel,
     time |-> delay]

\* data.input_note_off(key, channel, delay)
input_note_off(key, channel, delay) ==
    [type |-> "note_off", key |-> key, channel |-> channel, time |-> delay]

\* data.input_param_value(param_id, value, delay)
input_param_value(param_id, value, delay) ==
    [type |-> "param_value", param_id |-> param_id, value |-> value, time |-> delay]

\* a table that is read and not emptied
DrainedNothing(on_keys) == on_keys

\* the held-key table after on_keys.drain(..) has been used up
Drained(on_keys) == << >>

\* on_keys.drain(..).filter_map(|x| x): the held keys in lane order
RECURSIVE DrainKeys(_, _)
DrainKeys(on_keys, i) ==
    IF i > Len(on_keys) THEN << >>
    ELSE (IF on_keys[i] # None THEN << on_keys[i][1] >> ELSE << >>)
         \o DrainKeys(on_keys, i + 1)

\* the releases of an all-notes-off: input_note_off(key, 0, 0) for every drained key
AllOffReleases(keys) == [i \in 1..Len(keys) |-> input_note_off(keys[i], 0, 0)]

\* a parameter value that every module takes
AddressedToAny(event, module_index) == TRUE

\* *mindex == module_index
AddressedTo(event, module_index) == event.module_index = module_index

\* one arm of the match on an event of the queue
DeliverEvent(acc, event, module_index) ==
    IF event.type = "NoteOn"
    THEN [acc EXCEPT !.events =
              Append(@, input_note_on(event.key, event.velocity, 0, event.delay))]
    ELSE IF event.type = "NoteOff"
    THEN [acc EXCEPT !.events = Append(@, input_note_off(event.key, 0, event.delay))]
    ELSE IF event.type = "NoteAllOff"
    THEN [acc EXCEPT !.events = @ \o AllOffReleases(DrainKeys(acc.on_keys, 1)),
                     !.on_keys = Drained(acc.on_keys)]
    ELSE IF AddressedTo(event, module_index)
    THEN [acc EXCEPT !.events =
              Append(@, input_param_value(event.param_id, event.value, event.delay))]
    ELSE acc

RECURSIVE DeliverEvents(_, _, _, _)
DeliverEvents(acc, queue, module_index, i) ==
    IF i > Len(queue) THEN acc
    ELSE DeliverEvents(DeliverEvent(acc, queue[i], module_index), queue, module_index, i + 1)

\* prepare_module_event: the held-key table of the context and the input events of
\* the module after the call
prepare_module_event(c, events, module_index) ==
    DeliverEvents([on_keys |-> c.on_keys, events |-> events],
                  c.event_list_input, module_index, 1)

\* event queues of a block
EventQueues ==
    { << >>,
      << NoteAllOff >>,
      << NoteAllOff, NoteAllOff >>,
      << NoteOn(64, 100, 3), NoteAllOff >>,
      << NoteOff(60, 5), NoteAllOff >>,
      << NoteAllOff, NoteOff(60, 128), NoteOn(64, 100, 128) >>,
      << ParamValue(2, 7, <<1, PointScale>>, 0), NoteAllOff >>,
      << NoteOff(60, 0), NoteOn(64, 100, 0) >>,
      << NoteOn(64, 100, 3), ParamValue(2, 7, <<1, PointScale>>, 3),
         ParamValue(1, 9, <<0, PointScale>>, 5), NoteOff(64, 7) >> }

\* held-key tables at the call
EventHeldTables ==
    { << >>, << None >>, << Some(60) >>, << Some(64) >>, << None, Some(72) >>,
      << Some(60), Some(72) >>, << Some(64), Some(72) >> }

\* the translation has stored the key of every NoteOn of the queue in the table, and
\* released only keys it held
QueueOfTable(queue, on_keys) ==
    \A i \in 1..Len(queue) :
        /\ queue[i].type = "NoteOn" =>
               \E l \in 1..Len(on_keys) : on_keys[l] = Some(queue[i].key)
        /\ queue[i].type = "NoteOff" =>
               \E l \in 1..Len(on_keys) : on_keys[l] # None

\* tracks of one, two and three modules without audio inputs
EventRoutings == { << << << >> >> >>, << << << >>, << >> >> >>, << << << >>, << >>, << >> >> >> }

InitEvent ==
    /\ song = SongNew
    /\ line_play = 0
    /\ view_msgs = << >>
    /\ track = TrackNew
    /\ \E lr \in LoopRanges, keys \in EventHeldTables, queue \in EventQueues :
           /\ QueueOfTable(queue, keys)
           /\ ctx = [ContextDefault(lr) EXCEPT !.on_keys = keys,
                                               !.event_list_input = queue]
    /\ gh = HistoryInit(track, song)
    /\ routing \in EventRoutings
    /\ drv = "render"
    /\ block = 1
    /\ task = [t \in Tracks |-> [TaskIdle EXCEPT !.pc = "run"]]
    /\ lock = [t \in Tracks |-> TRUE]
    /\ plug = [t \in Tracks |-> [m \in 1..Len(routing[t]) |-> PlugInit(Len(routing[t][m]))]]
    /\ result = "none"
    /\ seen = {}
    /\ buffer = << >>
    /\ output = << >>
    /\ handles = [t \in Tracks |-> << >>]
    /\ mutex = "free"
    /\ listener = ListenerIdle

\* process_module up to the end of prepare_module_event, for the next module of the
\* track
PrepareModuleEvent(t) ==
    LET m == task[t].module
        r == prepare_module_event(ctx, plug[t][m].events, m)
    IN /\ task[t].pc = "run"
       /\ m <= Len(routing[t])
       /\ plug' = [plug EXCEPT ![t][m].events = r.events]
       /\ ctx' = [ctx EXCEPT !.on_keys = r.on_keys]
       /\ task' = [task EXCEPT ![t].module = m + 1]
       /\ seen' = seen \cup {[module |-> m, keys_before |-> ctx.on_keys]}
       /\ UNCHANGED <<song, line_play, view_msgs, track, gh>>
       /\ UNCHANGED <<routing, drv, block, lock, result>>
       /\ UNCHANGED <<mixVars, listenVars>>

NextEvent == \E t \in Tracks : PrepareModuleEvent(t)

SpecEvent == InitEvent /\ [][NextEvent]_vars

(***************************************************************************)
(* Track::prepare_module_audio, the copy: the output of the source module  *)
(* goes channel by channel into the input buffer of the module, as a whole *)
(* buffer or, for a channel whose constant mask bit is set, as its first   *)
(* sample.  The process data of the two modules are drawn from the signals *)
(* below; the source is a module of the same track.                        *)
(***************************************************************************)
\* mask & (1 << ch) != 0
HasBit(mask, ch) == (mask \div (2 ^ ch)) % 2 = 1
\* mask |= 1 << ch
SetBit(mask, ch) == IF HasBit(mask, ch) THEN mask ELSE mask + 2 ^ ch
\* a mask whose bit stays as it is
ClearBitKept(mask, ch) == mask

\* mask &= !(1 << ch)
ClearBit(mask, ch) == IF HasBit(mask, ch) THEN mask - 2 ^ ch ELSE mask

\* the process data of a module: one output port and one input port
ProcessData(buffer_out, constant_mask_out, buffer_in, constant_mask_in) ==
    [buffer_out |-> << buffer_out >>, constant_mask_out |-> << constant_mask_out >>,
     buffer_in |-> << buffer_in >>, constant_mask_in |-> << constant_mask_in >>]

\* the body of the loop over the channels
CopyChannel(dst, src, input, ch) ==
    LET sp == input.src_port_index
        dp == input.dst_port_index
    IN IF ~HasBit(src.constant_mask_out[sp], ch)
       THEN [dst EXCEPT !.constant_mask_in[dp] = ClearBit(@, ch),
                        !.buffer_in[dp][ch + 1] = src.buffer_out[sp][ch + 1]]
       ELSE [dst EXCEPT !.constant_mask_in[dp] = SetBit(@, ch),
                        !.buffer_in[dp][ch + 1][1] = src.buffer_out[sp][ch + 1][1]]

\* for ch in 0..context.nchannels
RECURSIVE CopyChannels(_, _, _, _, _)
CopyChannels(dst, src, input, nchannels, ch) ==
    IF ch >= nchannels THEN dst
    ELSE CopyChannels(CopyChannel(dst, src, input, ch), src, input, nchannels, ch + 1)

\* a channel of MaxFrames samples: first sample `first`, then steps of `step`
Signal(first, step) == [f \in 1..MaxFrames |-> first + step * (f - 1)]

\* what a source channel holds: a constant block, and blocks that change after the
\* first sample
SourceSignals == { Signal(1, 0), Signal(1, 1), Signal(3, 2) }

\* what the input buffer holds from the blocks before
StaleSignals == { Signal(0, 0), Signal(5, 1) }

Masks == 0..(2 ^ NChannels - 1)

\* an audio input onto the destination port dst_port
AudioInputAt(src_track, src_module, dst_port) ==
    [AudioInput(src_track, src_module) EXCEPT !.dst_port_index = dst_port]

\* the module lists of the track: the last module takes the module before it; the
\* two modules before it on its two input ports; both of them on its first port
AudioRoutings ==
    { << << << >>, << AudioInput(1, 1) >> >> >>,
      << << << >>, << >>, << AudioInput(1, 1), AudioInputAt(1, 2, 2) >> >> >>,
      << << << >>, << >>, << AudioInput(1, 1), AudioInput(1, 2) >> >> >> }

\* a block of silence on every channel
Silence == [c \in 1..NChannels |-> Signal(0, 0)]

\* what the second input port holds from the blocks before, and its mask
IdlePort == [c \in 1..NChannels |-> Signal(5, 1)]
IdleMask == 1

\* the process data of the module that is routed: two input ports
Destination(in, mask_in) ==
    [ProcessData(Silence, 0, in, mask_in) EXCEPT
         !.buffer_in = @ \o << IdlePort >>,
         !.constant_mask_in = @ \o << IdleMask >>]

InitAudio ==
    /\ song = SongNew
    /\ line_play = 0
    /\ view_msgs = << >>
    /\ track = TrackNew
    /\ \E lr \in LoopRanges :
           ctx = [ContextDefault(lr) EXCEPT !.nchannels = NChannels, !.nframes = MaxFrames]
    /\ gh = HistoryInit(track, song)
    /\ routing \in AudioRoutings
    /\ drv = "render"
    /\ block = 1
    /\ task = [t \in Tracks |-> [TaskIdle EXCEPT !.pc = "run", !.module = Len(routing[t])]]
    /\ lock = [t \in Tracks |-> TRUE]
    /\ \E out \in [1..(Len(routing[1]) - 1) -> [1..NChannels -> SourceSignals]],
          mask_out \in [1..(Len(routing[1]) - 1) -> Masks],
          in \in [1..NChannels -> StaleSignals], mask_in \in Masks :
           plug = << [m \in 1..Len(routing[1]) |->
                         IF m < Len(routing[1])
                         THEN ProcessData(out[m], mask_out[m], Silence, 0)
                         ELSE Destination(in, mask_in)] >>
    /\ result = "none"
    /\ seen = {}
    /\ buffer = << >>
    /\ output = << >>
    /\ handles = [t \in Tracks |-> << >>]
    /\ mutex = "free"
    /\ listener = ListenerIdle

\* prepare_module_audio of the module the task stands at: its next audio input
PrepareModuleAudio(t) ==
    LET m == task[t].module
        i == task[t].input
        input == routing[t][m][i]
        from == input.src_module_index
    IN /\ task[t].pc = "run"
       /\ m <= Len(routing[t])
       /\ i <= Len(routing[t][m])
       /\ from[1] = t
       /\ plug' = [plug EXCEPT ![t][m] =
                       CopyChannels(@, plug[from[1]][from[2]], input, ctx.nchannels, 0)]
       /\ task' = [task EXCEPT ![t].input = i + 1]
       /\ UNCHANGED <<transVars, routing, drv, block, lock, result, seen>>
       /\ UNCHANGED <<mixVars, listenVars>>

NextAudio == \E t \in Tracks : PrepareModuleAudio(t)

SpecAudio == InitAudio /\ [][NextAudio]_vars

(***************************************************************************)
(* The command thread of Singer::start_listener beside the audio callback. *)
(* Both reach the Singer through its Mutex: the command thread takes it    *)
(* for one message at a time, the callback for one Singer::process, which  *)
(* is followed in three steps (position and set-up, Track::process, mix).  *)
(***************************************************************************)
\* the messages of the editor: SingerMsg
Commands ==
    { [type |-> "Play"], [type |-> "Stop"],
      [type |-> "Note", track_index |-> 1, line |-> 0, key |-> 62],
      [type |-> "Note", track_index |-> 1, line |-> 3, key |-> 62],
      [type |-> "NoteOn", track_index |-> 1, key |-> 70, velocity |-> 100] }

\* a command that does not wait for the Singer
ListenerBargesIn(m) == TRUE

\* singer.lock().unwrap() of the command thread returns once nobody holds the Mutex
ListenerMayEnter(m) == m = "free"

\* the lock() of the audio callback around Singer::process
CallbackMayEnter(m) == m = "free"

\* SingerMsg::Note: the key of the note of the line, or a new note there
NoteEdit(t, line, key) ==
    IF line \in DOMAIN t.lanes[1] /\ t.lanes[1][line].type = "Note"
    THEN [t EXCEPT !.lanes[1][line].key = key]
    ELSE [t EXCEPT !.lanes[1] = (line :> NoteItem(key, 100, 0)) @@ t.lanes[1]]

InitListen ==
    /\ song = SongNew
    /\ line_play = 0
    /\ view_msgs = << >>
    /\ track \in Timelines
    /\ \E lr \in LoopRanges : ctx = ContextDefault(lr)
    /\ gh = HistoryInit(track, song)
    /\ routing = << << >> >>
    /\ drv = "idle"
    /\ block = 0
    /\ task = << TaskIdle >>
    /\ lock = << FALSE >>
    /\ plug = << << >> >>
    /\ result = "none"
    /\ seen = {}
    /\ buffer = << >>
    /\ output = << >>
    /\ handles = [t \in Tracks |-> << >>]
    /\ mutex = "free"
    /\ listener = ListenerIdle

\* the audio callback takes the Singer for a block
CallbackLock ==
    /\ drv = "idle"
    /\ block < MaxBlocks
    /\ CallbackMayEnter(mutex)
    /\ mutex' = "audio"
    /\ drv' = "locked"
    /\ UNCHANGED <<transVars, routing, block, task, lock, plug, result, seen>>
    /\ UNCHANGED <<mixVars, listener>>

\* Singer::process up to the fan-out: the position, the set-up of the context
BlockBegin ==
    /\ drv = "locked"
    /\ \E frames_count \in FrameCounts :
           LET cpp == compute_play_position(song, line_play, frames_count)
               song1 == [song EXCEPT !.play_position = cpp.play_position]
           IN /\ song' = song1
              /\ line_play' = cpp.line_play
              /\ view_msgs' = cpp.sent
              /\ ctx' = SetUp(ctx, song1, frames_count)
              /\ seen' = {[play_p |-> song1.play_p, track |-> track,
                           event_list_input |-> << >>]}
    /\ drv' = "render"
    /\ UNCHANGED <<track, gh, routing, block, task, lock, plug, result>>
    /\ UNCHANGED <<mixVars, listenVars>>

\* the fan-out: Track::process of the track
BlockRender ==
    /\ drv = "render"
    /\ ctx' = TrackProcess(track, ctx)
    /\ seen' = { [s EXCEPT !.event_list_input = ctx'.event_list_input] : s \in seen }
    /\ drv' = "mix"
    /\ UNCHANGED <<song, line_play, view_msgs, track, gh>>
    /\ UNCHANGED <<routing, block, task, lock, plug, result>>
    /\ UNCHANGED <<mixVars, listenVars>>

\* the mix and the return of Singer::process; the callback lets go of the Singer
BlockEnd ==
    /\ drv = "mix"
    /\ drv' = "idle"
    /\ block' = block + 1
    /\ result' = ProcessValue("Ok")
    /\ mutex' = IF mutex = "audio" THEN "free" ELSE mutex
    /\ gh' = [gh EXCEPT !.live = << >>]
    /\ UNCHANGED <<song, line_play, view_msgs, track, ctx>>
    /\ UNCHANGED <<routing, task, lock, plug, seen>>
    /\ UNCHANGED <<mixVars, listener>>

\* receiver.recv() returns a message of the editor
Recv(msg) ==
    /\ listener.pc = "recv"
    /\ listener.received < MaxCommands
    /\ listener' = [pc |-> "lock", msg |-> Some(msg), received |-> listener.received + 1]
    /\ UNCHANGED <<transVars, routing, drv, block, task, lock, plug, result, seen>>
    /\ UNCHANGED <<mixVars, mutex>>

\* singer.lock().unwrap() in the arm of the message
ListenerLock ==
    /\ listener.pc = "lock"
    /\ ListenerMayEnter(mutex)
    /\ mutex' = "listener"
    /\ listener' = [listener EXCEPT !.pc = "apply"]
    /\ UNCHANGED <<transVars, routing, drv, block, task, lock, plug, result, seen>>
    /\ UNCHANGED mixVars

\* the arm of the message under the guard, and the drop of the guard at its end
Apply ==
    LET msg == listener.msg[1]
    IN /\ listener.pc = "apply"
       /\ \/ /\ msg.type = "Play"
             /\ song' = [song EXCEPT !.play_p = TRUE]
             /\ UNCHANGED <<track, ctx, view_msgs>>
          \/ /\ msg.type = "Stop"
             /\ song' = [song EXCEPT !.play_p = FALSE]
             /\ UNCHANGED <<track, ctx, view_msgs>>
          \/ /\ msg.type = "Note"
             /\ track' = NoteEdit(track, msg.line, msg.key)
             /\ view_msgs' = << [type |-> "Song"] >>
             /\ UNCHANGED <<song, ctx>>
          \/ /\ msg.type = "NoteOn"
             /\ ctx' = [ctx EXCEPT !.event_list_input =
                            Append(@, NoteOn(msg.key, msg.velocity, 0))]
             /\ UNCHANGED <<song, track, view_msgs>>
       /\ gh' = IF msg.type = "NoteOn"
                THEN [gh EXCEPT !.live = Append(@, NoteOn(msg.key, msg.velocity, 0))]
                ELSE gh
       /\ mutex' = IF mutex = "listener" THEN "free" ELSE mutex
       /\ listener' = [listener EXCEPT !.pc = "recv", !.msg = None]
       /\ UNCHANGED line_play
       /\ UNCHANGED <<routing, drv, block, task, lock, plug, result, seen>>
       /\ UNCHANGED mixVars

NextListen ==
    \/ CallbackLock
    \/ BlockBegin
    \/ BlockRender
    \/ BlockEnd
    \/ \E msg \in Commands : Recv(msg)
    \/ ListenerLock
    \/ Apply

SpecListen == InitListen /\ [][NextListen]_vars

(***************************************************************************)
(* Properties of the translation and of the playback position (Spec).      *)
(***************************************************************************)
Playing == gh.ran /\ ctx.play_p
Wrapped == Playing /\ ctx.play_position.start >= ctx.play_position.end
Straight == Playing /\ ctx.play_position.start < ctx.play_position.end
InLoop(time) == ctx.loop_range.start <= time /\ time < ctx.loop_range.end

\* C1: every lane has at most one key sounding, and a key started on a lane is
\* released once: no block emits a NoteOff for a key of the lane that is not
\* sounding any more, and no NoteOn while another key of the lane still sounds.
C1_ReleasedOnce == ~gh.doubleOff /\ ~gh.overlap

\* C4: the two ranges of a wrapped block are disjoint, and in every pass around the
\* loop each item of the loop window is translated once: never twice, and once
\* exactly when its tick lies in the part of the pass that was played.
C4_LoopPartition ==
    /\ Wrapped =>
           LET r == gh.ranges
           IN \A time \in {ItemTime(track, it) : it \in Items(track)} :
                  Len(r) = 2 => ~(Contains(r[1], time) /\ Contains(r[2], time))
    /\ \A it \in Items(track) :
           InLoop(ItemTime(track, it)) =>
               /\ gh.passHits[it] <= 1
               /\ gh.closed.valid =>
                      gh.closed.hits[it] =
                          (IF ItemTime(track, it) >= gh.closed.from THEN 1 ELSE 0)

\* C5: over a run of consecutive straight (non-wrapping) playing blocks an item is
\* translated once when its time lies in the union of the windows and not at all
\* otherwise, and the block that translates it is the one whose window holds its
\* time, whatever lines the inclusive line span of the block visits.
C5_TranslatedOnce ==
    /\ \A it \in Items(track) :
           gh.runHits[it] =
               (IF gh.runFrom <= ItemTime(track, it)
                      /\ ItemTime(track, it) < song.play_position.end
                THEN 1 ELSE 0)
    /\ Straight =>
           /\ ctx.play_position.start = gh.prev_end
           /\ \A it \in Items(track) :
                  CountHits(gh.hitlog, it, {1}, 1) =
                      (IF ctx.play_position.start <= ItemTime(track, it)
                             /\ ItemTime(track, it) < ctx.play_position.end
                       THEN 1 ELSE 0)

\* a straight block of a run of at least two blocks translated one item and left out
\* another one whose line is in its line span
C5_Witness ==
    /\ Straight
    /\ gh.runFrom < ctx.play_position.start
    /\ \E it \in Items(track) : CountHits(gh.hitlog, it, {1}, 1) = 1
    /\ \E it \in Items(track) :
           /\ it[2] >= ctx.play_position.start \div LineTicks
           /\ it[2] <= ctx.play_position.end \div LineTicks
           /\ CountHits(gh.hitlog, it, {1}, 1) = 0
           /\ gh.runHits[it] = 0

\* C6: a block whose window has start = end, stopped or playing, appends no event
\* and leaves the held-key table as it was.
C6_ZeroWindowSilent ==
    (gh.ran /\ ctx.play_position.start = ctx.play_position.end) =>
        (ctx.event_list_input = << >> /\ ctx.on_keys = gh.keys_before)

\* C7: the window of every block starts at the end of the window of the block
\* before, and a block that is not playing has end = start.
C7_StartIsPreviousEnd ==
    gh.ran =>
        /\ song.play_position.start = gh.prev_end
        /\ ~ctx.play_p => song.play_position.end = song.play_position.start

\* C8: a playing block whose advanced end start + ticks exceeds the loop end gets
\* end = loop_start + (advanced end - loop_end) and keeps its start, so start >= end.
C8_WrapAtLoopEnd ==
    Playing =>
        LET advanced == gh.prev_end + TicksPerBlock(ctx.nframes)
        IN advanced > ctx.loop_range.end =>
               /\ song.play_position.start = gh.prev_end
               /\ song.play_position.end =
                      ctx.loop_range.start + (advanced - ctx.loop_range.end)
               /\ song.play_position.start >= song.play_position.end

\* C9: the length of the window of a straight playing block is the quotient
\* (frames / sample_rate) / (60 / (bpm * lpb * 256)) rounded to the nearest integer,
\* halves away from zero: n - 1/2 <= quotient < n + 1/2.
C9_TicksPerBlock ==
    Straight =>
        LET n == ctx.play_position.end - ctx.play_position.start
            num == ctx.nframes * Bpm * Lpb * LineTicks
            den == SecPerMinute * SampleRate
            half == den \div 2
        IN /\ 2 * half = den
           /\ n * den - half <= num
           /\ num < n * den + half

\* a straight playing block whose quotient is no integer and was rounded up
C9_Witness ==
    /\ Straight
    /\ (ctx.play_position.end - ctx.play_position.start) * (SecPerMinute * SampleRate)
           > ctx.nframes * Bpm * Lpb * LineTicks

\* C10: in a wrapped block no event of an item of [loop_start, end) comes before an
\* event of an item of [start, loop_end) in the event queue.
C10_TailBeforeHead ==
    Wrapped =>
        /\ Len(gh.ev_src) = Len(ctx.event_list_input)
        /\ \A i, j \in 1..Len(gh.ev_src) :
               LET ti == ItemTime(track, <<gh.ev_src[i].lane, gh.ev_src[i].line>>)
                   tj == ItemTime(track, <<gh.ev_src[j].lane, gh.ev_src[j].line>>)
               IN (i < j) => ~(ti < ctx.play_position.end /\ tj >= ctx.play_position.start)

\* a block that wraps (start > end) with an event from each of its two ranges
C10_Witness ==
    /\ Wrapped
    /\ ctx.play_position.start > ctx.play_position.end
    /\ \E i, j \in 1..Len(gh.ev_src) :
           /\ ItemTime(track, <<gh.ev_src[i].lane, gh.ev_src[i].line>>)
                  >= ctx.play_position.start
           /\ ItemTime(track, <<gh.ev_src[j].lane, gh.ev_src[j].line>>)
                  < ctx.play_position.end

\* no lane held a key when the block started
Cold == \A l \in 1..Len(gh.keys_before) : gh.keys_before[l] = None

\* the non-off Note items whose time lies in the window of the block
NotesInWindow ==
    { it \in Items(track) :
          /\ track.lanes[it[1]][it[2]].type = "Note"
          /\ ~track.lanes[it[1]][it[2]].off
          /\ Contains(ctx.play_position, ItemTime(track, it)) }

\* the positions of the event queue that hold the events of an item
EventsOf(it) ==
    { i \in 1..Len(gh.ev_src) : gh.ev_src[i].lane = it[1] /\ gh.ev_src[i].line = it[2] }

RECURSIVE CountEvents(_, _, _)
CountEvents(events, Test(_), i) ==
    IF i > Len(events) THEN 0
    ELSE (IF Test(events[i]) THEN 1 ELSE 0) + CountEvents(events, Test, i + 1)

IsAllOff(e) == e.type = "NoteAllOff"
IsQueuedOff(e) == e.type = "NoteOff"
IsRelease(e) == e.type = "note_off"

HeldCount(on_keys) == Cardinality({ l \in 1..Len(on_keys) : on_keys[l] # None })

\* C12: a call of prepare_module_event whose queue holds an all-notes-off gives the
\* module a note-release at offset 0 for every key a lane held at the call, one
\* release per held lane on top of the queue's own releases, and leaves no lane
\* holding a key.
C12_AllNotesOff ==
    \A s \in seen :
        CountEvents(ctx.event_list_input, IsAllOff, 1) > 0 =>
            LET in == plug[1][s.module].events
            IN /\ \A l \in 1..Len(s.keys_before) :
                      s.keys_before[l] # None =>
                          \E i \in 1..Len(in) :
                              in[i] = [type |-> "note_off", key |-> s.keys_before[l][1],
                                       channel |-> 0, time |-> 0]
               /\ CountEvents(in, IsRelease, 1) =
                      CountEvents(ctx.event_list_input, IsQueuedOff, 1)
                          + HeldCount(s.keys_before)
               /\ HeldCount(ctx.on_keys) = 0

\* an all-notes-off has reached a module while two lanes held a key
C12_Witness ==
    \E s \in seen :
        /\ CountEvents(ctx.event_list_input, IsAllOff, 1) > 0
        /\ HeldCount(s.keys_before) = 2
        /\ CountEvents(plug[1][s.module].events, IsRelease, 1) >= 2

(***************************************************************************)
(* Properties of the audio routing (SpecAudio).                            *)
(***************************************************************************)
\* C13: after the routing of a binding, the input buffer of every channel whose
\* source mask bit is set holds the first sample of the source channel at every
\* frame of the block, as a copy of the broadcast signal would.
C13_ConstantBroadcast ==
    \A t \in Tracks :
        LET m == task[t].module
        IN (task[t].pc = "run" /\ m <= Len(routing[t]) /\ task[t].input > 1) =>
               LET input == routing[t][m][task[t].input - 1]
                   src == plug[input.src_module_index[1]][input.src_module_index[2]]
                   dst == plug[t][m]
               IN \A ch \in 0..(NChannels - 1) :
                      HasBit(src.constant_mask_out[input.src_port_index], ch) =>
                          \A f \in 1..MaxFrames :
                              dst.buffer_in[input.dst_port_index][ch + 1][f] =
                                  src.buffer_out[input.src_port_index][ch + 1][1]

(***************************************************************************)
(* Properties of the render tasks (SpecRender).                            *)
(***************************************************************************)
\* C2: every read of another track's module output takes the output of one fixed
\* block relative to the reader: always the block being rendered (the source has
\* finished it) or always the block before, and never a block that is being written.
C2_OneSourceBlock ==
    \A a, b \in seen : a.lag = b.lag /\ ~a.torn /\ a.lag \in {0, 1}

\* C3: a failed native process call ends the render of its track (no later module
\* of the track is called in the block) and Singer::process returns the failure.
C3_FailureReported ==
    /\ \A t \in Tracks :
           task[t].result = "Err" =>
               \A m \in 1..Len(routing[t]) : m > task[t].module => plug[t][m].called < block
    /\ (drv = "idle" /\ block > 0 /\ FanOutResult(task) = "Err") => result = "Err"

\* C14: every read of the output buffer and constant mask of a module of another
\* track is made while the reader holds the render context of that track, and so
\* never while the native call of the source module is writing them.
C14_ReadUnderLock == \A s \in seen : s.held /\ ~s.writing

\* the task of track t stands in contexts[src].lock() and the context is taken
Waiting(t) ==
    /\ task[t].pc = "run"
    /\ task[t].phase = "ptr"
    /\ task[t].module <= Len(routing[t])
    /\ task[t].input <= Len(routing[t][task[t].module])
    /\ LET from == routing[t][task[t].module][task[t].input].src_module_index
       IN from[1] # t /\ SourceInRange(from) /\ lock[from[1]]

\* C15: the render tasks of a block never come to a stand: there is no state of
\* the fan-out in which every task that has not finished waits for the context of
\* another track, each of them holding its own.
C15_NoTaskWaitsForever ==
    ~(/\ drv = "render"
      /\ \E t \in Tracks : Waiting(t)
      /\ \A t \in Tracks : Waiting(t) \/ task[t].pc \in {"done", "skipped", "panicked"})

\* every AudioInput of the routing names a module that is there
RoutingInRange ==
    \A t \in Tracks : \A m \in 1..Len(routing[t]) : \A i \in 1..Len(routing[t][m]) :
        SourceInRange(routing[t][m][i].src_module_index)

\* C16: a routing with an AudioInput whose source track or module index is out of
\* range is turned away before the rendering of a block: no render task reaches the
\* out-of-range lookup and no block is given up half-way because of it.
C16_FaultRejectedBeforeRender == ~Panicked(task) /\ drv # "crashed"

\* the same for a Point item whose automation index is out of range: no translation
\* reaches the lookup in automation_params (SpecMidi)
C16_PointBindingInRange == ~gh.panicked

\* the sum of the samples at (channel, frame) of the context buffers of the tracks S
RECURSIVE SumOfTracks(_, _, _)
SumOfTracks(S, channel, frame) ==
    IF S = {} THEN 0
    ELSE LET t == CHOOSE x \in S : TRUE
         IN buffer[t][channel + 1][frame + 1] + SumOfTracks(S \ {t}, channel, frame)

\* C17: when a block has been processed, the output sample of every channel and
\* frame, at interleaved index nchannels * frame + channel, is the sum of the samples
\* of all tracks' context buffers at that channel and frame; and as long as a track
\* task of the block has not finished the output is untouched.
C17_MixIsSumOfTracks ==
    /\ (drv = "idle" /\ block > 0) =>
           /\ Len(output) = NChannels * ctx.nframes
           /\ \A channel \in 0..(NChannels - 1), frame \in 0..(ctx.nframes - 1) :
                  output[NChannels * frame + channel + 1] =
                      SumOfTracks(Tracks, channel, frame)
           /\ \A t \in Tracks : task[t].pc \in {"done", "skipped"}
    /\ drv = "render" => \A k \in 1..Len(output) : output[k] = 0

\* a block of two frames has been mixed from the buffers of two tracks that both
\* rendered it, at different levels
C17_Witness ==
    /\ drv = "idle"
    /\ block > 0
    /\ ctx.nframes = 2
    /\ Len(buffer) = 2
    /\ \A t \in Tracks : task[t].result = "Ok"
    /\ buffer[1][1][1] = 100 + 10 * block + 1
    /\ buffer[2][1][1] = 2 * (200 + 10 * block + 1)
    /\ output[1] = buffer[1][1][1] + buffer[2][1][1]
    /\ output[2] # output[3]

(***************************************************************************)
(* The report of the current line to the view (Spec).                      *)
(***************************************************************************)
\* C20: a block whose line (window.start / 256) differs from the line recorded at the
\* block before sends exactly one State notification, and it carries the new line; a
\* block whose line is the recorded one sends none.  A step that leaves play_p alone
\* is a block (Play and Stop change it and send nothing).
C20_StateCarriesNewLine ==
    [][song'.play_p = song.play_p =>
          IF line_play' # line_play
          THEN view_msgs' = << [type |-> "State", line_play |-> line_play'] >>
          ELSE view_msgs' = << >>]_vars

(***************************************************************************)
(* Properties of the command thread and the audio callback (SpecListen).   *)
(***************************************************************************)
\* the audio callback is inside a block: from taking the Singer to the return of
\* Singer::process
InBlock == drv \in {"locked", "render", "mix"}

\* C19: no command of the editor is applied while a block is being processed: the
\* command thread is never inside the arm of a message while the callback is in
\* Singer::process, and from the set-up of a block to its mix the transport flag, the
\* timeline and the event queue are those the block itself has seen or made.
C19_CommandsBetweenBlocks ==
    /\ ~(listener.pc = "apply" /\ InBlock)
    /\ drv \in {"render", "mix"} =>
           \A s \in seen :
               /\ song.play_p = s.play_p
               /\ track = s.track
               /\ drv = "mix" => ctx.event_list_input = s.event_list_input

\* an edit of the timeline waits for the Singer while a block that a Play command
\* started has translated notes of the timeline
C19_Witness ==
    /\ drv = "mix"
    /\ listener.pc = "lock"
    /\ listener.msg[1].type = "Note"
    /\ ctx.play_p
    /\ Len(ctx.event_list_input) > 0

(***************************************************************************)
(* Properties of the translation of one item (SpecMidi).                   *)
(***************************************************************************)
\* the positions of the event queue that hold the events of a translated item
HitEvents(h) == { i \in 1..Len(gh.ev_src) : gh.ev_src[i] = h }

\* the events of a translated item, in queue order
ItemEvents(h) ==
    LET idx == HitEvents(h)
    IN IF idx = {} THEN << >>
       ELSE LET lo == CHOOSE i \in idx : \A j \in idx : i <= j
            IN [k \in 1..Cardinality(idx) |-> ctx.event_list_input[lo + k - 1]]

\* the events of a translated item stand next to each other in the queue
Adjacent(h) ==
    \A i, j \in HitEvents(h) : \A k \in i..j : k \in HitEvents(h)

\* the offset of a translated item in its range
HitDelay(h) ==
    h.line * LineTicks + track.lanes[h.lane][h.line].delay - gh.ranges[h.rng].start

\* the Note items of the block: positions of the log of translated items
NoteHits == { p \in 1..Len(gh.hitlog) :
                  track.lanes[gh.hitlog[p].lane][gh.hitlog[p].line].type = "Note" }

\* C21: a translated Note item on a lane that holds key k puts NoteOff(k) at the
\* item's offset first and, when it is no off marker, NoteOn(key, velocity) at the
\* same offset next; afterwards the lane holds the item's key, or no key when the
\* item is an off marker.  Stated for the first Note item of a lane in the block
\* (the lane holds what it held at the start) and, for the held key, for the last.
C21_NoteReleasesThenStarts ==
    Playing =>
        /\ Len(gh.ev_src) = Len(ctx.event_list_input)
        /\ \A p \in NoteHits :
               LET h == gh.hitlog[p]
                   item == track.lanes[h.lane][h.line]
                   held == HeldKey(gh.keys_before, h.lane)
                   first == \A q \in NoteHits : gh.hitlog[q].lane = h.lane => q >= p
                   last == \A q \in NoteHits : gh.hitlog[q].lane = h.lane => q <= p
                   off == IF held # None
                          THEN << [type |-> "NoteOff", key |-> held[1],
                                   delay |-> HitDelay(h)] >>
                          ELSE << >>
                   on == IF ~item.off
                         THEN << [type |-> "NoteOn", key |-> item.key,
                                  velocity |-> item.velocity, delay |-> HitDelay(h)] >>
                         ELSE << >>
               IN /\ Adjacent(h)
                  /\ first => ItemEvents(h) = off \o on
                  /\ last => HeldKey(ctx.on_keys, h.lane) =
                                 (IF item.off THEN None ELSE Some(item.key))

\* the Point items of the block: positions of the log of translated items
PointHits == { p \in 1..Len(gh.hitlog) : p \notin NoteHits }

\* C22: a Point item whose time lies in the current range, and whose automation
\* index names an entry of the binding table, puts exactly one ParamValue into the
\* queue: addressed to the (module index, parameter id) of that entry, with the
\* value value/255 (0 for 0, 1 for 255) and the offset time - range.start; it puts
\* nothing else there, and a lane on which no Note item was translated holds after
\* the block what it held before.
C22_PointBecomesParamValue ==
    (Playing /\ ~gh.panicked) =>
        /\ Len(gh.ev_src) = Len(ctx.event_list_input)
        /\ \A rng \in 1..Len(gh.ranges) : \A it \in Items(track) :
               (/\ track.lanes[it[1]][it[2]].type = "Point"
                /\ Contains(gh.ranges[rng], ItemTime(track, it)))
                   => \E p \in PointHits :
                          gh.hitlog[p] = [rng |-> rng, lane |-> it[1], line |-> it[2]]
        /\ \A p \in PointHits :
               LET h == gh.hitlog[p]
                   point == track.lanes[h.lane][h.line]
                   binding == track.automation_params[point.automation_params_index]
                   evs == ItemEvents(h)
               IN /\ Len(evs) = 1
                  /\ evs[1].type = "ParamValue"
                  /\ evs[1].module_index = binding[1]
                  /\ evs[1].param_id = binding[2]
                  /\ evs[1].value[1] * PointScale = point.value * evs[1].value[2]
                  /\ point.value = 0 => evs[1].value[1] = 0
                  /\ point.value = PointScale => evs[1].value[1] = evs[1].value[2]
                  /\ evs[1].delay = HitDelay(h)
        /\ \A lane \in 1..Len(track.lanes) :
               (\A q \in NoteHits : gh.hitlog[q].lane # lane) =>
                   HeldKey(ctx.on_keys, lane) = HeldKey(gh.keys_before, lane)

\* a block has translated a Point of value 255 and no Note item: its queue is the one
\* ParamValue, of value 1
C22_Witness ==
    /\ Playing
    /\ NoteHits = {}
    /\ Len(ctx.event_list_input) = 1
    /\ \E p \in PointHits :
           /\ track.lanes[gh.hitlog[p].lane][gh.hitlog[p].line].value = PointScale
           /\ ctx.event_list_input[1].type = "ParamValue"
           /\ ctx.event_list_input[1].value[1] = ctx.event_list_input[1].value[2]

\* C23: the events of one range stand in the queue in the order of their items'
\* lines, and on one line in the order of the lanes, whatever the delays of the
\* items are: an event of a lower line, or of a lower lane of the same line, is
\* never behind.
C23_LineThenLaneOrder ==
    Playing =>
        /\ Len(gh.ev_src) = Len(ctx.event_list_input)
        /\ \A i, j \in 1..Len(gh.ev_src) :
               (i < j /\ gh.ev_src[i].rng = gh.ev_src[j].rng) =>
                   \/ gh.ev_src[i].line < gh.ev_src[j].line
                   \/ /\ gh.ev_src[i].line = gh.ev_src[j].line
                      /\ gh.ev_src[i].lane <= gh.ev_src[j].lane

\* two items of one line and one range, the one of the lower lane with the later
\* time: its event stands first in the queue with the larger offset
C23_Witness ==
    /\ Playing
    /\ \E i, j \in 1..Len(gh.ev_src) :
           /\ i < j
           /\ gh.ev_src[i].rng = gh.ev_src[j].rng
           /\ gh.ev_src[i].line = gh.ev_src[j].line
           /\ gh.ev_src[i].lane < gh.ev_src[j].lane
           /\ ctx.event_list_input[i].delay > ctx.event_list_input[j].delay

(***************************************************************************)
(* Properties of the event delivery to each module (SpecEvent).            *)
(***************************************************************************)
\* what a queue without an all-notes-off hands to module m: its note events with
\* channel 0 and their own offsets, and the parameter values addressed to m
RECURSIVE Forwarded(_, _, _)
Forwarded(queue, m, i) ==
    IF i > Len(queue) THEN << >>
    ELSE LET e == queue[i]
             in == IF e.type = "NoteOn"
                   THEN << [type |-> "note_on", key |-> e.key, velocity |-> e.velocity,
                            channel |-> 0, time |-> e.delay] >>
                   ELSE IF e.type = "NoteOff"
                   THEN << [type |-> "note_off", key |-> e.key, channel |-> 0,
                            time |-> e.delay] >>
                   ELSE IF e.type = "ParamValue" /\ e.module_index = m
                   THEN << [type |-> "param_value", param_id |-> e.param_id,
                            value |-> e.value, time |-> e.delay] >>
                   ELSE << >>
         IN in \o Forwarded(queue, m, i + 1)

IsNoteStart(e) == e.type = "note_on"
IsQueuedOn(e) == e.type = "NoteOn"
IsParam(e) == e.type = "param_value"

\* the parameter values of a queue that are addressed to module m
RECURSIVE ParamsFor(_, _, _)
ParamsFor(queue, m, i) ==
    IF i > Len(queue) THEN 0
    ELSE (IF queue[i].type = "ParamValue" /\ queue[i].module_index = m THEN 1 ELSE 0)
         + ParamsFor(queue, m, i + 1)

\* C24: the event delivery of module m hands the module every NoteOn and NoteOff of
\* the queue with channel 0 and the event's offset, in queue order, and a ParamValue
\* exactly when it is addressed to m, for every module of the track; it leaves the
\* queue as it is, entry by entry.
C24_ForwardedToEveryModule ==
    [][\A t \in Tracks :
           LET m == task[t].module
               queue == ctx.event_list_input
               in == plug'[t][m].events
           IN (task[t].module < task'[t].module) =>
                  /\ ctx'.event_list_input = queue
                  /\ CountEvents(in, IsNoteStart, 1) = CountEvents(queue, IsQueuedOn, 1)
                  /\ CountEvents(in, IsParam, 1) = ParamsFor(queue, m, 1)
                  /\ CountEvents(queue, IsAllOff, 1) = 0 =>
                         in = Forwarded(queue, m, 1)]_vars

\* the second module of a track has got the notes of a queue that also holds a
\* parameter value for it and one for the first module
C24_Witness ==
    /\ Len(routing[1]) >= 2
    /\ task[1].module > 2
    /\ CountEvents(ctx.event_list_input, IsAllOff, 1) = 0
    /\ ParamsFor(ctx.event_list_input, 1, 1) = 1
    /\ ParamsFor(ctx.event_list_input, 2, 1) = 1
    /\ CountEvents(plug[1][2].events, IsNoteStart, 1) = 1
    /\ CountEvents(plug[1][2].events, IsParam, 1) = 1
    /\ CountEvents(plug[1][1].events, IsNoteStart, 1) = 1

(***************************************************************************)
(* Properties of the audio routing of a module (SpecAudio).                *)
(***************************************************************************)
\* the input ports of the module the task routes
InputPorts(t) == 1..Len(plug[t][task[t].module].buffer_in)

\* the input ports that a binding of the module targets
Targeted(t) ==
    { routing[t][task[t].module][i].dst_port_index :
          i \in 1..Len(routing[t][task[t].module]) }

\* after the routing, the destination of binding i has the mask bits of its source,
\* and the samples of its source on every channel whose bit is clear
RoutedFrom(t, i) ==
    LET m == task[t].module
        input == routing[t][m][i]
        src == plug'[input.src_module_index[1]][input.src_module_index[2]]
        dst == plug'[t][m]
    IN \A ch \in 0..(ctx.nchannels - 1) :
           /\ HasBit(dst.constant_mask_in[input.dst_port_index], ch)
                  = HasBit(src.constant_mask_out[input.src_port_index], ch)
           /\ ~HasBit(src.constant_mask_out[input.src_port_index], ch) =>
                  dst.buffer_in[input.dst_port_index][ch + 1]
                      = src.buffer_out[input.src_port_index][ch + 1]

\* a step leaves the input ports that no binding targets as they are
UntargetedKept(t) ==
    LET m == task[t].module
    IN \A dp \in InputPorts(t) \ Targeted(t) :
           /\ plug'[t][m].buffer_in[dp] = plug[t][m].buffer_in[dp]
           /\ plug'[t][m].constant_mask_in[dp] = plug[t][m].constant_mask_in[dp]

\* the step that routes the last binding of the module
RoutingEnds(t) ==
    /\ task[t].input <= Len(routing[t][task[t].module])
    /\ task'[t].input > Len(routing[t][task[t].module])

LastOntoPort(t, i) ==
    \A j \in 1..Len(routing[t][task[t].module]) :
        routing[t][task[t].module][j].dst_port_index
            = routing[t][task[t].module][i].dst_port_index => j <= i

TrackRoutings ==
    { << << << >> >> >>,
      << << << >>, << AudioInput(1, 1) >> >> >>,
      << << << >>, << AudioInput(1, 1) >>, << AudioInput(1, 1), AudioInput(1, 2) >> >> >> }

\* a loop that takes every other module
NextModuleSkips(module_index) == module_index + 2

\* for module_index in 0..module_len: the module after module_index
NextModule(module_index) == module_index + 1

\* the windows of the block: stopped, and playing over the first lines
TrackWindows == { [play_p |-> FALSE, end |-> 0], [play_p |-> TRUE, end |-> LineTicks],
                  [play_p |-> TRUE, end |-> 3 * LineTicks] }

\* one more step in the log
Logged(log, op, module) ==
    log \cup {[at |-> Cardinality(log) + 1, op |-> op, module |-> module]}

InitTrack ==
    /\ \E w \in TrackWindows :
           song = [play_p |-> w.play_p, play_position |-> [start |-> 0, end |-> w.end]]
    /\ line_play = 0
    /\ view_msgs = << >>
    /\ track \in Timelines
    /\ \E lr \in LoopRanges : ctx = SetUp(ContextDefault(lr), song, MaxFrames)
    /\ gh = HistoryInit(track, song)
    /\ routing \in TrackRoutings
    /\ drv = "render"
    /\ block = 1
    /\ task = [t \in Tracks |-> [TaskIdle EXCEPT !.pc = "run", !.phase = "midi"]]
    /\ lock = [t \in Tracks |-> TRUE]
    /\ plug = [t \in Tracks |-> [m \in 1..Len(routing[t]) |-> PlugInit(Len(routing[t][m]))]]
    /\ result = "none"
    /\ seen = {}
    /\ buffer = << >>
    /\ output = << >>
    /\ handles = [t \in Tracks |-> << >>]
    /\ mutex = "free"
    /\ listener = ListenerIdle

\* Track::process: self.compute_midi(context)
TrackTranslate(t) ==
    /\ task[t].pc = "run"
    /\ task[t].phase = "midi"
    /\ ctx' = TrackProcess(track, ctx)
    /\ task' = [task EXCEPT ![t].phase = "event"]
    /\ seen' = Logged(seen, "midi", 0)
    /\ UNCHANGED <<song, line_play, view_msgs, track, gh>>
    /\ UNCHANGED <<routing, drv, block, lock, plug, result>>
    /\ UNCHANGED <<mixVars, listenVars>>

\* process_module: self.prepare_module_event(context, module_index)
TrackEvent(t) ==
    LET m == task[t].module
        r == prepare_module_event(ctx, plug[t][m].events, m)
    IN /\ task[t].pc = "run"
       /\ task[t].phase = "event"
       /\ m <= Len(routing[t])
       /\ plug' = [plug EXCEPT ![t][m].events = r.events]
       /\ ctx' = [ctx EXCEPT !.on_keys = r.on_keys]
       /\ task' = [task EXCEPT ![t].phase = "audio"]
       /\ seen' = Logged(seen, "event", m)
       /\ UNCHANGED <<song, line_play, view_msgs, track, gh>>
       /\ UNCHANGED <<routing, drv, block, lock, result>>
       /\ UNCHANGED <<mixVars, listenVars>>

\* process_module: self.prepare_module_audio(..), every input read from the output
\* of its source module in the track's own context
TrackAudio(t) ==
    LET m == task[t].module
    IN /\ task[t].pc = "run"
       /\ task[t].phase = "audio"
       /\ plug' = [plug EXCEPT ![t][m].inp =
                       [i \in 1..Len(routing[t][m]) |->
                           plug[t][routing[t][m][i].src_module_index[2]].out]]
       /\ task' = [task EXCEPT ![t].phase = "call"]
       /\ seen' = Logged(seen, "audio", m)
       /\ UNCHANGED <<transVars, routing, drv, block, lock, result>>
       /\ UNCHANGED <<mixVars, listenVars>>

\* process_module: context.plugins[module_index].process()?, which writes the
\* module's output of the block or fails and ends Track::process
TrackCall(t, ok) ==
    LET m == task[t].module
    IN /\ task[t].pc = "run"
       /\ task[t].phase = "call"
       /\ seen' = Logged(seen, "process", m)
       /\ IF ok
          THEN /\ plug' = [plug EXCEPT ![t][m].out = Samples(block, FALSE),
                                       ![t][m].called = block]
               /\ task' = [task EXCEPT ![t].phase = "event", ![t].module = NextModule(m)]
          ELSE /\ plug' = [plug EXCEPT ![t][m].called = block]
               /\ task' = [task EXCEPT ![t].pc = "done", ![t].result = "Err"]
       /\ UNCHANGED <<transVars, routing, drv, block, lock, result>>
       /\ UNCHANGED <<mixVars, listenVars>>

\* Track::process returns Ok(()) after the last module
TrackReturn(t) ==
    /\ task[t].pc = "run"
    /\ task[t].phase = "event"
    /\ task[t].module > Len(routing[t])
    /\ task' = [task EXCEPT ![t].pc = "done", ![t].result = "Ok"]
    /\ UNCHANGED <<transVars, routing, drv, block, lock, plug, result, seen>>
    /\ UNCHANGED <<mixVars, listenVars>>

NextTrack ==
    \/ \E t \in Tracks : TrackTranslate(t)
    \/ \E t \in Tracks : TrackEvent(t)
    \/ \E t \in Tracks : TrackAudio(t)
    \/ \E t \in Tracks : TrackCall(t, TRUE)
    \/ \E t \in Tracks : TrackCall(t, FALSE)
    \/ \E t \in Tracks : TrackReturn(t)

SpecTrack == InitTrack /\ [][NextTrack]_vars

(***************************************************************************)
(* Properties of the order of the steps of a track (SpecTrack).            *)
(***************************************************************************)
\* the place of a step in a block: the translation first, then three steps for
\* every module in list order
StepPlace(op, module) ==
    IF op = "midi" THEN 1
    ELSE 1 + 3 * (module - 1)
           + (IF op = "event" THEN 1 ELSE IF op = "audio" THEN 2 ELSE 3)

\* C26: in a block of a track the translation is the first step and happens once,
\* the modules follow in list order, each at most once, each with event delivery,
\* audio routing and native call in this order; so an audio input from an earlier
\* module of the track holds that module's output of the current block when the
\* native call of the module is made.
C26_StepsInOrder ==
    /\ \A e \in seen :
           /\ e.at = StepPlace(e.op, e.module)
           /\ e.op = "midi" \/ e.module \in 1..Len(routing[1])
    /\ \A m \in 1..Len(routing[1]) :
           plug[1][m].called = block =>
               \A i \in 1..Len(routing[1][m]) :
                   routing[1][m][i].src_module_index[2] < m =>
                       plug[1][m].inp[i] = [blk |-> block, torn |-> FALSE]

\* the block of a track of three modules has ended: ten steps, and the third module
\* has taken the outputs of the first and of the second
C26_Witness ==
    /\ Len(routing[1]) = 3
    /\ task[1].pc = "done"
    /\ task[1].result = "Ok"
    /\ Cardinality(seen) = 10
    /\ Len(ctx.event_list_input) > 0
    /\ plug[1][3].inp = << [blk |-> block, torn |-> FALSE], [blk |-> block, torn |-> FALSE] >>

(***************************************************************************)
(* Properties of the context from one block to the next (Spec).            *)
(***************************************************************************)
\* the first Note item of a lane in the block releases, before anything else, the
\* key the lane held when the block started
HeldKeysReleased ==
    \A p \in NoteHits :
        LET h == gh.hitlog[p]
            held == HeldKey(gh.keys_before, h.lane)
        IN (/\ held # None
            /\ \A q \in NoteHits : gh.hitlog[q].lane = h.lane => q >= p)
               => /\ Len(ItemEvents(h)) >= 1
                  /\ ItemEvents(h)[1] = [type |-> "NoteOff", key |-> held[1],
                                         delay |-> HitDelay(h)]

\* C27: the preparation of a block empties the event queue and leaves the held-key
\* table as the block before left it: the queue of a block holds the events of this
\* block alone, a key that a lane holds at the end of a block is held at the start of
\* the next one, and the next Note item of the lane, in whatever later block it is
\* translated, releases it.  A step that leaves play_p alone is a block.
C27_HeldKeysSurvivePrepare ==
    [][song'.play_p = song.play_p =>
          /\ gh'.keys_before = ctx.on_keys
          /\ Len(gh'.ev_src) = Len(ctx'.event_list_input)
          /\ gh'.hitlog = << >> => ctx'.event_list_input = << >>
          /\ HeldKeysReleased']_vars

\* a block has released, with its first Note item of a lane, a key that the lane has
\* held since a block before, whose events are gone from the queue
C27_Witness ==
    /\ Playing
    /\ gh.prev_end > 0
    /\ \E p \in NoteHits :
           LET h == gh.hitlog[p]
           IN /\ HeldKey(gh.keys_before, h.lane) # None
              /\ \A q \in NoteHits : gh.hitlog[q].lane = h.lane => q >= p
              /\ h.line * LineTicks >= ctx.play_position.start
              /\ ItemEvents(h)[1].type = "NoteOff"
              /\ \A i \in 1..Len(ctx.event_list_input) :
                     ctx.event_list_input[i].type = "NoteOn" =>
                         ctx.event_list_input[i].key # HeldKey(gh.keys_before, h.lane)[1]

(***************************************************************************)
(* The lists of the Singer when tracks are added and plugins are loaded:   *)
(* song.tracks (here with the modules of every track), Singer::plugins     *)
(* (plug), and process_track_contexts (their plugin handles in handles,    *)
(* their buffers in buffer).  The commands are applied between blocks.     *)
(***************************************************************************)
\* the plugin files the editor loads
Paths == {"a.clap", "b.clap", "c.clap"}

\* Module::new(path)
ModuleOf(path) == [path |-> path]

\* Plugin::new(..), load(path), start(): a loaded plugin
LoadedPlugin(path) == [path |-> path]

\* Song::add_track: Track::new(), named by its place
SongAddTrack(tracks) == Append(tracks, [name |-> Len(tracks) + 1, modules |-> << >>])

\* a plugin put in front of the list of its track
WithPluginInFront(plugins, track_index, plugin) ==
    [plugins EXCEPT ![track_index] = << plugin >> \o @]

\* the loop that pushes empty lists until plugins[track_index] exists, and
\* plugins[track_index].push(plugin)
WithPlugin(plugins, track_index, plugin) ==
    LET grown == IF Len(plugins) < track_index
                 THEN plugins \o [i \in 1..(track_index - Len(plugins)) |-> << >>]
                 ELSE plugins
    IN [grown EXCEPT ![track_index] = Append(@, plugin)]

\* the AudioInput lists of the modules of the tracks: a module that was just made
\* has none
RoutingOf(tracks) == [t \in 1..Len(tracks) |-> [m \in 1..Len(tracks[t].modules) |-> << >>]]

\* Singer::new: Song::new() and the first add_track()
InitLoad ==
    /\ song = [play_p |-> SongNew.play_p, play_position |-> SongNew.play_position,
               tracks |-> SongAddTrack(<< >>)]
    /\ line_play = 0
    /\ view_msgs = << >>
    /\ track = TrackNew
    /\ \E lr \in LoopRanges : ctx = ContextDefault(lr)
    /\ gh = HistoryInit(track, song)
    /\ routing = RoutingOf(song.tracks)
    /\ drv = "idle"
    /\ block = 0
    /\ task = << TaskIdle >>
    /\ lock = << FALSE >>
    /\ plug = << << >> >>
    /\ result = "none"
    /\ seen = {}
    /\ buffer = << << >> >>
    /\ output = << >>
    /\ handles = << << >> >>
    /\ mutex = "free"
    /\ listener = ListenerIdle

\* SingerMsg::TrackAdd: add_track() and send_song()
TrackAdd ==
    /\ listener.pc = "recv"
    /\ listener.received < MaxCommands
    /\ song' = [song EXCEPT !.tracks = SongAddTrack(@)]
    /\ routing' = RoutingOf(song'.tracks)
    /\ plug' = Append(plug, << >>)
    /\ handles' = Append(handles, << >>)
    /\ buffer' = Append(buffer, << >>)
    /\ task' = Append(task, TaskIdle)
    /\ lock' = Append(lock, FALSE)
    /\ view_msgs' = << [type |-> "Song"] >>
    /\ listener' = [listener EXCEPT !.received = @ + 1]
    /\ UNCHANGED <<line_play, track, ctx, gh, drv, block, result, seen, output, mutex>>

\* SingerMsg::PluginLoad(track_index, path) on a track of the song: the plugin is
\* made, loaded and started, the module and the plugin are pushed
PluginLoad(track_index, path) ==
    /\ listener.pc = "recv"
    /\ listener.received < MaxCommands
    /\ track_index \in 1..Len(song.tracks)
    /\ song' = [song EXCEPT !.tracks[track_index].modules = Append(@, ModuleOf(path))]
    /\ routing' = RoutingOf(song'.tracks)
    /\ plug' = WithPlugin(plug, track_index, LoadedPlugin(path))
    /\ listener' = [listener EXCEPT !.received = @ + 1]
    /\ UNCHANGED <<line_play, view_msgs, track, ctx, gh>>
    /\ UNCHANGED <<drv, block, task, lock, result, seen>>
    /\ UNCHANGED <<mixVars, mutex>>

\* SingerMsg::PluginLoad whose plugin.start() fails: the unwrap() panics before
\* anything is pushed and the command thread is gone
PluginLoadPanic(track_index) ==
    /\ listener.pc = "recv"
    /\ listener.received < MaxCommands
    /\ track_index \in 1..Len(song.tracks)
    /\ listener' = [listener EXCEPT !.pc = "dead", !.received = @ + 1]
    /\ UNCHANGED <<transVars, routing, drv, block, task, lock, plug, result, seen>>
    /\ UNCHANGED <<mixVars, mutex>>

\* Singer::process of a stopped song: the position, and for every pair of a context
\* and a plugin list the set-up, which makes the handles of the context anew; the
\* fan-out and the mix leave the lists alone
LoadBlock ==
    /\ block < MaxBlocks
    /\ LET cpp == compute_play_position(song, line_play, MaxFrames)
       IN /\ song' = [song EXCEPT !.play_position = cpp.play_position]
          /\ line_play' = cpp.line_play
          /\ view_msgs' = cpp.sent
    /\ handles' = [t \in 1..Len(handles) |->
                      IF t <= Len(plug) THEN Handles(plug[t], t) ELSE handles[t]]
    /\ block' = block + 1
    /\ result' = ProcessValue("Ok")
    /\ UNCHANGED <<track, ctx, gh, routing, drv, task, lock, plug, seen>>
    /\ UNCHANGED <<buffer, output, listenVars>>

NextLoad ==
    \/ TrackAdd
    \/ \E track_index \in 1..Len(song.tracks), path \in Paths :
           PluginLoad(track_index, path)
    \/ \E track_index \in 1..Len(song.tracks) : PluginLoadPanic(track_index)
    \/ LoadBlock

SpecLoad == InitLoad /\ [][NextLoad]_vars

(***************************************************************************)
(* Properties of the lists of the Singer (SpecLoad).                       *)
(***************************************************************************)
\* the track list, the plugin lists and the contexts have one length, and the
\* plugins of every track are those of its modules, in the order of the modules
ListsAligned ==
    /\ Len(song.tracks) = Len(plug)
    /\ Len(song.tracks) = Len(handles)
    /\ \A t \in 1..Len(song.tracks) :
           /\ Len(plug[t]) = Len(song.tracks[t].modules)
           /\ \A m \in 1..Len(plug[t]) : plug[t][m].path = song.tracks[t].modules[m].path

\* every context has one handle for every module of its track, the handle at the
\* place of a module being the handle of the plugin at that place
HandlesAligned ==
    \A t \in 1..Len(handles) :
        handles[t] = [m \in 1..Len(song.tracks[t].modules) |-> [track |-> t, index |-> m]]

\* C28: after every TrackAdd and every PluginLoad on a track of the song, the track
\* list, the plugin lists and the contexts have the same length and every track has
\* the plugins of its modules, in their order; and after every block the handles of
\* every context are aligned with the modules of its track.
C28_ListsStayAligned ==
    /\ ListsAligned
    /\ [][ListsAligned' /\ (block' # block => HandlesAligned')]_vars

\* a track with two modules of different plugins, and a block after the loads has
\* made the two handles of its context
C28_Witness ==
    /\ Len(song.tracks[1].modules) = 2
    /\ song.tracks[1].modules[1].path # song.tracks[1].modules[2].path
    /\ Len(plug[1]) = 2
    /\ Len(handles[1]) = 2

(***************************************************************************)
(* Properties of the all-notes-off across the modules of a track           *)
(* (SpecEvent).                                                            *)
(***************************************************************************)
\* the keys the lanes held when the first module of the block was prepared
KeysAtBlockStart == { s.keys_before : s \in { x \in seen : x.module = 1 } }

\* C29: when the queue of a block holds an all-notes-off, every module of the track
\* that has been prepared has got a note-release for every key a lane held at the
\* start of the block, the later modules as well as the first.
C29_EveryModuleReleased ==
    CountEvents(ctx.event_list_input, IsAllOff, 1) > 0 =>
        \A keys \in KeysAtBlockStart : \A s \in seen :
            \A l \in 1..Len(keys) :
                keys[l] # None =>
                    \E i \in 1..Len(plug[1][s.module].events) :
                        plug[1][s.module].events[i] =
                            [type |-> "note_off", key |-> keys[l][1],
                             channel |-> 0, time |-> 0]

(***************************************************************************)
(* Properties of the live notes of the editor (SpecListen).  gh.live holds *)
(* the events that commands have pushed since the last block.              *)
(***************************************************************************)
\* C30: a live note that a command has pushed into the queue of the track between
\* two blocks is in the queue when the track renders the next block: the set-up of
\* the block has not erased it.
C30_LiveNoteReachesBlock ==
    drv = "render" =>
        \A i \in 1..Len(gh.live) :
            \E j \in 1..Len(ctx.event_list_input) :
                ctx.event_list_input[j] =
                    [type |-> "NoteOn", key |-> gh.live[i].key,
                     velocity |-> gh.live[i].velocity, delay |-> 0]

(***************************************************************************)
(* The offsets of the events of a block against the playback time elapsed  *)
(* since the block's start (SpecMidi).                                     *)
(***************************************************************************)
\* the ticks played between the block's start and tick `time` of range rng: the
\* second range of a wrapped block comes after the whole of the first
ElapsedTicks(rng, time) ==
    IF rng = 1
    THEN time - ctx.play_position.start
    ELSE (ctx.loop_range.end - ctx.play_position.start) + (time - ctx.loop_range.start)

\* the length of the block in ticks
BlockTicks ==
    IF ctx.play_position.start < ctx.play_position.end
    THEN ctx.play_position.end - ctx.play_position.start
    ELSE (ctx.loop_range.end - ctx.play_position.start)
             + (ctx.play_position.end - ctx.loop_range.start)

\* the events of the block that were translated in its second range
SecondRangeEvents == { i \in 1..Len(gh.ev_src) : gh.ev_src[i].rng = 2 }

\* C32: every event of a block that compute_midi went through has the offset
\* that equals the ticks of playback between the block's start and its item (in
\* the second range of a wrapped block: (loop_end - start) + (time - loop_start)),
\* and every offset is smaller than the length of the block in ticks.
C32_OffsetIsElapsedTicks ==
    (Playing /\ ~gh.panicked) =>
        \A i \in 1..Len(gh.ev_src) :
            LET h == gh.ev_src[i]
                time == h.line * LineTicks + track.lanes[h.lane][h.line].delay
            IN /\ ctx.event_list_input[i].delay = ElapsedTicks(h.rng, time)
               /\ ctx.event_list_input[i].delay < BlockTicks

(***************************************************************************)
(* The transport with an audio device that keeps asking for blocks: the    *)
(* callback of the output stream is called for every buffer of the device, *)
(* so with the transport stopped Singer::process is taken again and again. *)
(* Nothing is assumed about the commands of the editor (Play, Stop) and    *)
(* nothing more than Spec assumes about the blocks of a running transport. *)
(***************************************************************************)
\* a block the device asks for while the transport is stopped
StoppedProcess(frames_count) == ~song.play_p /\ Process(frames_count)

SpecLive ==
    /\ Init
    /\ [][Next]_vars
    /\ WF_vars(\E frames_count \in FrameCounts : StoppedProcess(frames_count))

\* the transport is stopped and a lane of the context still holds a key
StoppedHolding == ~song.play_p /\ HeldCount(ctx.on_keys) > 0

\* the queue the modules of the track read in the block holds a release: a
\* NoteOff, or the NoteAllOff that prepare_module_event turns into releases
ReleaseQueued ==
    \E i \in 1..Len(ctx.event_list_input) :
        IsQueuedOff(ctx.event_list_input[i]) \/ IsAllOff(ctx.event_list_input[i])

\* a block processed with the transport stopped hands the modules a release
ReleasedWhileStopped == gh.ran /\ ~ctx.play_p /\ ReleaseQueued

\* C31: when the transport is stopped while a lane holds a key, a later block
\* processed with the transport still stopped hands the modules a release (a
\* NoteOff or a NoteAllOff), unless the transport is started again first: no key
\* stays held for ever after Stop.
C31_StopReleasesHeldKeys ==
    StoppedHolding ~> (ReleasedWhileStopped \/ song.play_p)

(***************************************************************************)
(* The plugin of the editor window (app.rs `self.plugin`): Plugin::start,  *)
(* Plugin::stop from the buttons and request_restart from the native       *)
(* plugin, with the log of the calls and of the native calls they make.    *)
(***************************************************************************)
\* calls of start, stop and request_restart in a behaviour
MaxCalls == 3

\* the native plugin that load() made
NativePlugin == "clap_plugin"

\* the Plugin after Plugin::new and load: the native plugin is there, not processing
PluginLoaded == [plugin |-> Some(NativePlugin), is_processing |-> FALSE]

\* the log with one more entry: a call of the host side ("host") or a call into
\* the native plugin ("native")
Noted(log, side, op) == log \cup {[at |-> Cardinality(log) + 1, side |-> side, op |-> op]}

\* Plugin::start on `this`: nothing when processing, else self.plugin.unwrap(),
\* activate and start_processing, and the flag is set
plugin_start(this, log) ==
    IF this.is_processing
    THEN [this |-> this, log |-> log, panicked |-> FALSE]
    ELSE IF this.plugin = None
    THEN [this |-> this, log |-> log, panicked |-> TRUE]
    ELSE [this |-> [this EXCEPT !.is_processing = TRUE],
          log |-> Noted(Noted(log, "native", "activate"), "native", "start_processing"),
          panicked |-> FALSE]

\* Plugin::stop on `this`: nothing when not processing, else self.plugin.unwrap(),
\* stop_processing and deactivate, and the flag is cleared
plugin_stop(this, log) ==
    IF ~this.is_processing
    THEN [this |-> this, log |-> log, panicked |-> FALSE]
    ELSE IF this.plugin = None
    THEN [this |-> this, log |-> log, panicked |-> TRUE]
    ELSE [this |-> [this EXCEPT !.is_processing = FALSE],
          log |-> Noted(Noted(log, "native", "stop_processing"), "native", "deactivate"),
          panicked |-> FALSE]

\* request_restart on `this`: this.stop().unwrap(); this.start().unwrap()
request_restart(this, log) ==
    LET stopped == plugin_stop(this, log)
    IN IF stopped.panicked THEN stopped ELSE plugin_start(stopped.this, stopped.log)

\* what `&mut *((*host).host_data as *mut Self)` can be.  Plugin::new stores the
\* address of its local `this` and returns `this` by value, and the editor moves
\* the loaded plugin once more into self.plugin: host_data points at the place the
\* plugin was built at.  The bytes there are the plugin itself where the build
\* made it in place ("alias"), or a dead copy: from before load (no native
\* plugin) or after it, with whatever flag the place holds by now.
HostData ==
    { [alias |-> TRUE, copy |-> PluginLoaded] }
        \cup { [alias |-> FALSE, copy |-> [plugin |-> p, is_processing |-> b]] :
                   p \in {None, Some(NativePlugin)}, b \in BOOLEAN }

\* the calls made so far
Calls == Cardinality({ e \in seen : e.side = "host" })

InitPlugin ==
    /\ song = SongNew
    /\ line_play = 0
    /\ view_msgs = << >>
    /\ track = TrackNew
    /\ \E lr \in LoopRanges : ctx = ContextDefault(lr)
    /\ gh = HistoryInit(track, song)
    /\ routing = << << >> >>
    /\ drv = "idle"
    /\ block = 0
    /\ task = << TaskIdle >>
    /\ lock = << FALSE >>
    /\ plug = << << PluginLoaded >> >>
    /\ result = "none"
    /\ seen = {}
    /\ buffer = << >>
    /\ output = << >>
    /\ handles = << << >> >>
    /\ mutex = "free"
    /\ listener = ListenerIdle

\* the button "start": self.plugin.as_mut().map(|x| x.start())
PluginStart ==
    /\ result = "none"
    /\ Calls < MaxCalls
    /\ LET r == plugin_start(plug[1][1], Noted(seen, "host", "start"))
       IN /\ plug' = << << r.this >> >>
          /\ seen' = r.log
    /\ UNCHANGED <<transVars, routing, drv, block, task, lock, result>>
    /\ UNCHANGED <<mixVars, listenVars>>

\* the button "stop": self.plugin.as_mut().map(|x| x.stop())
PluginStop ==
    /\ result = "none"
    /\ Calls < MaxCalls
    /\ LET r == plugin_stop(plug[1][1], Noted(seen, "host", "stop"))
       IN /\ plug' = << << r.this >> >>
          /\ seen' = r.log
    /\ UNCHANGED <<transVars, routing, drv, block, task, lock, result>>
    /\ UNCHANGED <<mixVars, listenVars>>

\* the native plugin calls host.request_restart: stop and start of what host_data
\* points at; the plugin of the editor changes only when that is the plugin itself.
\* A panic of an unwrap() inside the extern "C" function ends the program.
RequestRestart(host_data) ==
    /\ result = "none"
    /\ Calls < MaxCalls
    /\ LET this == IF host_data.alias THEN plug[1][1] ELSE host_data.copy
           r == request_restart(this, Noted(seen, "host", "request_restart"))
       IN /\ plug' = IF host_data.alias THEN << << r.this >> >> ELSE plug
          /\ seen' = r.log
          /\ result' = IF r.panicked THEN "panic" ELSE result
    /\ UNCHANGED <<transVars, routing, drv, block, task, lock>>
    /\ UNCHANGED <<mixVars, listenVars>>

NextPlugin ==
    \/ PluginStart
    \/ PluginStop
    \/ \E host_data \in HostData : RequestRestart(host_data)

SpecPlugin == InitPlugin /\ [][NextPlugin]_vars

(***************************************************************************)
(* Properties of the calls into the native plugin (SpecPlugin).            *)
(***************************************************************************)
\* the log in the order of its entries
CallLog == [n \in 1..Cardinality(seen) |-> CHOOSE e \in seen : e.at = n]

IsNative(e) == e.side = "native"

\* the native calls, in the order they were made
NativeCalls == SelectSeq(CallLog, IsNative)

\* the native calls among the first n entries of the log
NativeBefore(n) == Cardinality({ e \in seen : e.at < n /\ IsNative(e) })

\* one round of the native calls
NativeRound == << "activate", "start_processing", "stop_processing", "deactivate" >>

\* the native plugin is between an activate and the deactivate that follows it
\* after k native calls (the calls come in pairs)
ActiveAfter(k) == k % 4 = 2

\* C33: over the calls of start, stop and request_restart on a loaded plugin the
\* native calls go activate, start_processing, stop_processing, deactivate and
\* round again, beginning with activate; a start made while processing and a stop
\* made while not processing are followed by no native call; is_processing is true
\* exactly between an activate and the deactivate that follows; and after a
\* request_restart that returned the plugin is processing.
C33_NativeCallsAlternate ==
    /\ \A k \in 1..Len(NativeCalls) : NativeCalls[k].op = NativeRound[((k - 1) % 4) + 1]
    /\ \A e \in seen :
           (/\ e.side = "host"
            /\ \/ e.op = "start" /\ ActiveAfter(NativeBefore(e.at))
               \/ e.op = "stop" /\ ~ActiveAfter(NativeBefore(e.at)))
               => \A f \in seen : f.at = e.at + 1 => ~IsNative(f)
    /\ plug[1][1].is_processing <=> ActiveAfter(Len(NativeCalls))
    /\ (/\ result = "none"
        /\ \E e \in seen : /\ e.side = "host" /\ e.op = "request_restart"
                           /\ \A f \in seen : f.at > e.at => IsNative(f))
           => plug[1][1].is_processing
====
